---- MODULE Spec2Model ----
(***************************************************************************)
(* Currency Calculator Hub: the rates controller (hooks/useDailyRates.js), *)
(* its localStorage cache and the normalising rates service               *)
(* (services/api.js).                                                     *)
(*                                                                         *)
(* Conventions.  An optional JavaScript value is a sequence of length at   *)
(* most one: <<>> is undefined, <<v>> is the value v.  A table (rates,     *)
(* symbols) is a function from currency codes; rates are scaled by 1000.   *)
(* Time is epoch milliseconds.                                             *)
(***************************************************************************)
EXTENDS Integers, Sequences, FiniteSets, TLC

VARIABLES hook, storage, storageMode, now, ticks, requests, cacheRead, call, ui

vars == <<hook, storage, storageMode, now, ticks, requests, cacheRead, call, ui>>

(* ------------------------------ bounds --------------------------------- *)

\* load() invocations (mount effect, refresh, base change) per controller
MaxCalls == 2
\* clock advances
MaxTicks == 1
\* clock advances when the cache store is exercised on its own
MaxCacheTicks == 3

(* ----------------------------- constants ------------------------------- *)

TTL_MS == 24 * 60 * 60 * 1000

DefaultBase == "USD"

\* controller instances of the main specification
Instances == {1}

\* values the consumer passes as options.base; "" stands for a missing option
OptBases == {"", "USD", "EUR", "eur"}

Codes == {"USD", "EUR"}

\* the clock advances by the length of the freshness window
TickSteps == {TTL_MS}

T0 == 1000

(* ------------------------- optional values ----------------------------- *)

Undefined == <<>>

Some(v) == <<v>>

IsDefined(o) == Len(o) > 0

Val(o) == o[1]

EmptyTable == [c \in {} |-> 0]

(* ----------------------------- backend data ---------------------------- *)

\* editions of the backend's data that responses are drawn from
Editions == {1}

\* rate tables a backend may serve for a base, by edition
RatesTable(b, v) ==
  IF b = "USD"
  THEN (IF v = 1 THEN [c \in {"EUR", "GBP"} |-> IF c = "EUR" THEN 900 ELSE 800]
                 ELSE [c \in {"EUR", "GBP"} |-> IF c = "EUR" THEN 910 ELSE 790])
  ELSE (IF v = 1 THEN [c \in {"USD", "GBP"} |-> IF c = "USD" THEN 1100 ELSE 880]
                 ELSE [c \in {"USD", "GBP"} |-> IF c = "USD" THEN 1090 ELSE 870])

DateOf(v) == IF v = 1 THEN "2024-01-01" ELSE "2024-01-02"

SymbolsTable(v) ==
  IF v = 1 THEN [c \in {"EUR"} |-> "Euro"]
           ELSE [c \in {"EUR", "USD"} |-> IF c = "EUR" THEN "Euro" ELSE "US Dollar"]

OtherBase(b) == IF b = "USD" THEN "EUR" ELSE "USD"

\* a parsed response body: type is the JavaScript type of the body, the
\* other fields are its properties when it is an object
NoInner == [base |-> Undefined, date |-> Undefined, rates |-> Undefined, symbols |-> Undefined]

PlainBody(t) ==
  [type |-> t, base |-> Undefined, date |-> Undefined, rates |-> Undefined,
   symbols |-> Undefined, data |-> Undefined]

\* bodies the "latest" endpoint may answer a request for base b with
LatestBodies(b) ==
  { [PlainBody("object") EXCEPT !.base = Some(b), !.date = Some(DateOf(v)),
                                !.rates = Some(RatesTable(b, v))] : v \in Editions }
  \cup
  { \* a backend that ignores the base parameter
    [PlainBody("object") EXCEPT !.base = Some(OtherBase(b)), !.date = Some(DateOf(1)),
                                !.rates = Some(RatesTable(OtherBase(b), 1))],
    \* a nested payload
    [PlainBody("object") EXCEPT !.data = Some([NoInner EXCEPT !.base = Some(b),
                                !.date = Some(DateOf(1)), !.rates = Some(RatesTable(b, 1))])],
    \* an unrecognised shape
    PlainBody("object") }

SymbolsBodies ==
  { [PlainBody("object") EXCEPT !.symbols = Some(SymbolsTable(v))] : v \in Editions }
  \cup { [PlainBody("object") EXCEPT !.data = Some([NoInner EXCEPT !.symbols = Some(SymbolsTable(1))])],
         PlainBody("null") }

\* errors httpGet rejects with
TimeoutErr == [message |-> "[api] Request timed out", code |-> "ETIMEDOUT"]

NetworkErr == [message |-> "[api] Failed to fetch", code |-> ""]

HttpErrors == {TimeoutErr, NetworkErr}

(* ---------------------------- rates service ---------------------------- *)

safeString(v) == IF v = "" THEN Undefined ELSE Some(v)

\* data && typeof data === 'object': objects and arrays, not null
IsObjectBody(data) == data.type \in {"object", "array"}

\* a value that is a text where a mapping is expected: a mapping with the one
\* reserved key "#text"
TextValue == [c \in {"#text"} |-> "n/a"]

\* typeof v === 'object'
IsObjectValue(v) == "#text" \notin DOMAIN v

\* a string property is truthy when it is present and not empty
Truthy(v) == IsDefined(v) /\ Val(v) # ""

\* a TypeError raised by reading a property of null or undefined
TypeErrorThrown == [c \in {"#throw"} |-> "TypeError"]

\* without the unwrapping of a nested payload
getDailyRatesNoUnwrap(data, optsBase) ==
  LET base == IF IsDefined(safeString(optsBase)) THEN Val(safeString(optsBase)) ELSE "USD"
  IN  IF IsObjectBody(data) /\ IsDefined(data.rates) /\ Truthy(data.base)
      THEN [base |-> Val(data.base), date |-> data.date, rates |-> Val(data.rates)]
      ELSE [base |-> base, date |-> Undefined, rates |-> EmptyTable]

getDailyRates(data, optsBase) ==
  LET base == IF IsDefined(safeString(optsBase)) THEN Val(safeString(optsBase)) ELSE "USD"
  IN  IF IsObjectBody(data) /\ IsDefined(data.rates) /\ Truthy(data.base)
      THEN [base |-> Val(data.base), date |-> data.date, rates |-> Val(data.rates)]
      ELSE IF IsObjectBody(data) /\ IsDefined(data.data) /\ IsDefined(Val(data.data).rates)
      THEN [base |-> IF Truthy(Val(data.data).base) THEN Val(Val(data.data).base) ELSE base,
            date |-> Val(data.data).date,
            rates |-> Val(Val(data.data).rates)]
      ELSE [base |-> base, date |-> Undefined, rates |-> EmptyTable]

\* typeof data === 'object' without the test for null
getSymbolsNoNullGuard(data) ==
  IF data.type = "null"
  THEN TypeErrorThrown
  ELSE IF IsObjectBody(data) /\ IsDefined(data.symbols) /\ IsObjectValue(Val(data.symbols))
  THEN Val(data.symbols)
  ELSE IF IsObjectBody(data) /\ IsDefined(data.data) /\ IsDefined(Val(data.data).symbols)
  THEN Val(Val(data.data).symbols)
  ELSE EmptyTable

getSymbols(data) ==
  IF IsObjectBody(data) /\ IsDefined(data.symbols) /\ IsObjectValue(Val(data.symbols))
  THEN Val(data.symbols)
  ELSE IF IsObjectBody(data) /\ IsDefined(data.data) /\ IsDefined(Val(data.data).symbols)
  THEN Val(Val(data.data).symbols)
  ELSE EmptyTable

(* ------------------------------ cache store ---------------------------- *)

toUpperCase(s) == IF s = "eur" THEN "EUR" ELSE s

\* one key for every base
cacheKeyShared(base) == "USD"

\* the key without its constant prefix 'cc_hub_daily_payload_v1::'
cacheKey(base) == toUpperCase(IF base = "" THEN "USD" ELSE base)

\* localStorage items: no item, a string that is not JSON, a JSON object
NoItem == [kind |-> "null", data |-> Undefined]

Garbage == [kind |-> "garbage", data |-> Undefined]

Json(e) == [kind |-> "json", data |-> Some(e)]

\* localStorage for the whole session: working, unavailable (getItem and
\* setItem throw), or full (setItem throws, getItem works)
StorageModes == {"ok", "unavailable", "full"}

getItemWorks == storageMode # "unavailable"

setItemWorks == storageMode = "ok"

safeParse(raw) == IF raw.kind = "json" THEN raw.data ELSE Undefined

\* isFresh with the comparison turned round
isFreshInverted(ts) ==
  IF ~IsDefined(ts) \/ Val(ts) = 0 THEN FALSE ELSE now - Val(ts) > TTL_MS

\* isFresh with the boundary included
isFreshInclusive(ts) ==
  IF ~IsDefined(ts) \/ Val(ts) = 0 THEN FALSE ELSE now - Val(ts) <= TTL_MS

isFresh(ts) ==
  IF ~IsDefined(ts) \/ Val(ts) = 0 THEN FALSE ELSE now - Val(ts) < TTL_MS

\* an entry stamped with the start of the backend's date instead of the
\* time of the write
CacheRecordBackendDate(payload, t) ==
  [base |-> payload.base, date |-> payload.date, rates |-> payload.rates,
   symbols |-> payload.symbols, lastUpdated |-> Some(1)]

\* the entry saveCache stores at time t
CacheRecord(payload, t) ==
  [base |-> payload.base, date |-> payload.date, rates |-> payload.rates,
   symbols |-> payload.symbols, lastUpdated |-> Some(t)]

\* saveCache that skips a payload without rates
saveCacheSkipsEmpty(base, payload, t) ==
  IF setItemWorks /\ payload.rates # EmptyTable
  THEN [storage EXCEPT ![cacheKey(base)] = Json(CacheRecord(payload, t))]
  ELSE storage

saveCache(base, payload, t) ==
  IF setItemWorks
  THEN [storage EXCEPT ![cacheKey(base)] = Json(CacheRecord(payload, t))]
  ELSE storage

\* loadCache without the freshness test
loadCacheUnchecked(base) ==
  IF ~getItemWorks THEN Undefined ELSE safeParse(storage[cacheKey(base)])

loadCache(base) ==
  IF ~getItemWorks THEN Undefined
  ELSE LET data == safeParse(storage[cacheKey(base)])
       IN  IF IsDefined(data) /\ isFresh(Val(data).lastUpdated) THEN data ELSE Undefined

(* ---------------------------- rates controller ------------------------- *)

\* a request of a fetch cycle: pending, fulfilled with the service's result,
\* or rejected with httpGet's error
Pending == [st |-> "pending", val |-> Undefined, err |-> Undefined]

Idle == [st |-> "idle", val |-> Undefined, err |-> Undefined]

Fulfilled(v) == [st |-> "ok", val |-> Some(v), err |-> Undefined]

Rejected(e) == [st |-> "failed", val |-> Undefined, err |-> Some(e)]

\* the two promises of the latest fetch cycle; active while load awaits them
NoFlight == [active |-> FALSE, sym |-> Idle, rat |-> Idle]

NewFlight == [active |-> TRUE, sym |-> Pending, rat |-> Pending]

\* the state of useDailyRates after its first render.  b is the local b of
\* the load call that last passed the guard, calls counts load invocations.
InitHook(optBase, noCache) ==
  [base |-> IF optBase = "" THEN "USD" ELSE toUpperCase(optBase),
   rates |-> EmptyTable, symbols |-> EmptyTable,
   date |-> Undefined, lastUpdated |-> Undefined,
   loading |-> TRUE, error |-> Undefined,
   loadingRef |-> FALSE, mountedRef |-> TRUE,
   disableCache |-> noCache,
   effectPending |-> TRUE, alive |-> TRUE,
   b |-> Undefined, flight |-> NoFlight, calls |-> 0]

\* the view the hook returns
View(h) ==
  [rates |-> h.rates, symbols |-> h.symbols, base |-> h.base, date |-> h.date,
   loading |-> h.loading, error |-> h.error, lastUpdated |-> h.lastUpdated]

\* applyPayload that leaves the rates as they were
applyPayloadNoRates(h, payload, t) ==
  IF ~h.mountedRef THEN h
  ELSE [h EXCEPT !.symbols = payload.symbols, !.date = payload.date,
                 !.lastUpdated = IF IsDefined(payload.lastUpdated) /\ Val(payload.lastUpdated) # 0
                                 THEN payload.lastUpdated ELSE Some(t)]

\* applyPayload without the test of mountedRef
applyPayloadUnmounted(h, payload, t) ==
  [h EXCEPT !.rates = payload.rates, !.symbols = payload.symbols,
            !.date = payload.date,
            !.lastUpdated = IF IsDefined(payload.lastUpdated) /\ Val(payload.lastUpdated) # 0
                            THEN payload.lastUpdated ELSE Some(t)]

applyPayload(h, payload, t) ==
  IF ~h.mountedRef THEN h
  ELSE [h EXCEPT !.rates = payload.rates, !.symbols = payload.symbols,
                 !.date = payload.date,
                 !.lastUpdated = IF IsDefined(payload.lastUpdated) /\ Val(payload.lastUpdated) # 0
                                 THEN payload.lastUpdated ELSE Some(t)]

\* load() without the loadingRef guard
loadSyncNoGuard(h, force) ==
  LET h1 == [h EXCEPT !.loadingRef = TRUE, !.loading = TRUE, !.error = Undefined,
                      !.b = Some(h.base)]
      cached == IF ~force /\ ~h.disableCache THEN loadCache(h.base) ELSE Undefined
  IN  IF IsDefined(cached)
      THEN [h |-> [applyPayload(h1, Val(cached), now)
                     EXCEPT !.loading = FALSE, !.loadingRef = FALSE],
            fetch |-> FALSE]
      ELSE [h |-> [h1 EXCEPT !.flight = NewFlight], fetch |-> TRUE]

\* a load that does not call setError(null)
loadSyncKeepsError(h, force) ==
  IF h.loadingRef THEN [h |-> h, fetch |-> FALSE]
  ELSE LET h1 == [h EXCEPT !.loadingRef = TRUE, !.loading = TRUE,
                           !.b = Some(h.base)]
           cached == IF ~force /\ ~h.disableCache THEN loadCache(h.base) ELSE Undefined
       IN  IF IsDefined(cached)
           THEN [h |-> [applyPayload(h1, Val(cached), now)
                          EXCEPT !.loading = FALSE, !.loadingRef = FALSE],
                 fetch |-> FALSE]
           ELSE [h |-> [h1 EXCEPT !.flight = NewFlight], fetch |-> TRUE]

\* the synchronous part of load() on hook h: the hook after the call, and
\* whether the call went on to fetchFresh
loadSync(h, force) ==
  IF h.loadingRef THEN [h |-> h, fetch |-> FALSE]
  ELSE LET h1 == [h EXCEPT !.loadingRef = TRUE, !.loading = TRUE, !.error = Undefined,
                           !.b = Some(h.base)]
           cached == IF ~force /\ ~h.disableCache THEN loadCache(h.base) ELSE Undefined
       IN  IF IsDefined(cached)
           THEN [h |-> [applyPayload(h1, Val(cached), now)
                          EXCEPT !.loading = FALSE, !.loadingRef = FALSE],
                 fetch |-> FALSE]
           ELSE [h |-> [h1 EXCEPT !.flight = NewFlight], fetch |-> TRUE]

\* the two requests fetchFresh(b) issues
fetchRequests(i, b) ==
  <<[inst |-> i, path |-> "/symbols", base |-> Undefined],
    [inst |-> i, path |-> "/latest", base |-> Some(b)]>>

load(i, h, force) ==
  LET r == loadSync(h, force)
  IN  /\ hook' = [hook EXCEPT ![i] = [r.h EXCEPT !.calls = h.calls + 1]]
      /\ requests' = IF r.fetch THEN requests \o fetchRequests(i, h.base) ELSE requests

\* the effect on [base, load]: cleanup of the previous run, then the run
RunEffect(i) ==
  /\ hook[i].alive
  /\ hook[i].effectPending
  /\ load(i, [hook[i] EXCEPT !.mountedRef = TRUE, !.effectPending = FALSE], FALSE)
  /\ UNCHANGED <<storage, storageMode, now, ticks, cacheRead, call, ui>>

\* refresh() that does not force
refreshNoForce(i) ==
  /\ hook[i].alive
  /\ hook[i].calls < MaxCalls
  /\ load(i, hook[i], FALSE)
  /\ UNCHANGED <<storage, storageMode, now, ticks, cacheRead, call, ui>>

refresh(i) ==
  /\ hook[i].alive
  /\ hook[i].calls < MaxCalls
  /\ load(i, hook[i], TRUE)
  /\ UNCHANGED <<storage, storageMode, now, ticks, cacheRead, call, ui>>

\* options.base changes: the sync effect calls setBase and the hook re-renders
ChangeBase(i, optBase) ==
  LET nextBase == toUpperCase(IF optBase = "" THEN "USD" ELSE optBase)
  IN  /\ hook[i].alive
      /\ ~hook[i].effectPending
      /\ hook[i].calls < MaxCalls
      /\ nextBase # hook[i].base
      /\ hook' = [hook EXCEPT ![i].base = nextBase, ![i].effectPending = TRUE]
      /\ UNCHANGED <<storage, storageMode, now, ticks, requests, cacheRead, call, ui>>

\* the consumer unmounts for good: cleanup of the effect
Unmount(i) ==
  /\ hook[i].alive
  /\ ~hook[i].effectPending
  /\ hook' = [hook EXCEPT ![i].alive = FALSE, ![i].mountedRef = FALSE]
  /\ UNCHANGED <<storage, storageMode, now, ticks, requests, cacheRead, call, ui>>

\* a request may settle while Promise.all has not been rejected
CanSettle(i) ==
  /\ hook[i].flight.active
  /\ hook[i].flight.sym.st # "failed"
  /\ hook[i].flight.rat.st # "failed"

SymbolsResponse(i, body) ==
  /\ CanSettle(i)
  /\ hook[i].flight.sym.st = "pending"
  /\ hook' = [hook EXCEPT ![i].flight.sym = Fulfilled(getSymbols(body))]
  /\ UNCHANGED <<storage, storageMode, now, ticks, requests, cacheRead, call, ui>>

SymbolsFailure(i, e) ==
  /\ CanSettle(i)
  /\ hook[i].flight.sym.st = "pending"
  /\ hook' = [hook EXCEPT ![i].flight.sym = Rejected(e)]
  /\ UNCHANGED <<storage, storageMode, now, ticks, requests, cacheRead, call, ui>>

\* the latest-rates request of the cycle is answered with one of the bodies
\* the backend may serve for the requested base
RatesResponse(i) ==
  /\ CanSettle(i)
  /\ hook[i].flight.rat.st = "pending"
  /\ \E body \in LatestBodies(Val(hook[i].b)) :
        hook' = [hook EXCEPT ![i].flight.rat = Fulfilled(getDailyRates(body, Val(hook[i].b)))]
  /\ UNCHANGED <<storage, storageMode, now, ticks, requests, cacheRead, call, ui>>

RatesFailure(i, e) ==
  /\ CanSettle(i)
  /\ hook[i].flight.rat.st = "pending"
  /\ hook' = [hook EXCEPT ![i].flight.rat = Rejected(e)]
  /\ UNCHANGED <<storage, storageMode, now, ticks, requests, cacheRead, call, ui>>

\* a merge that loses the symbols
MergedNoSymbols(b, symbolsData, ratesData, t) ==
  [base |-> ratesData.base, date |-> ratesData.date, rates |-> ratesData.rates,
   symbols |-> EmptyTable, lastUpdated |-> Some(t)]

\* the payload fetchFresh merges from the two results at time t
Merged(b, symbolsData, ratesData, t) ==
  [base |-> ratesData.base, date |-> ratesData.date, rates |-> ratesData.rates,
   symbols |-> symbolsData, lastUpdated |-> Some(t)]

JoinReady(fl) == fl.active /\ fl.sym.st = "ok" /\ fl.rat.st = "ok"

JoinFailed(fl) == fl.active /\ (fl.sym.st = "failed" \/ fl.rat.st = "failed")

\* a saveCache whose storage exception escapes into load's catch
FetchFulfilledWriteThrows(i) ==
  LET h == hook[i]
      fl == h.flight
      fresh == Merged(Val(h.b), Val(fl.sym.val), Val(fl.rat.val), now)
      h1 == IF setItemWorks THEN applyPayload(h, fresh, now)
            ELSE [h EXCEPT !.error = IF h.mountedRef
                                      THEN Some([message |-> "QuotaExceededError", code |-> ""])
                                      ELSE @]
  IN  /\ JoinReady(fl)
      /\ storage' = saveCache(Val(h.b), fresh, now)
      /\ hook' = [hook EXCEPT ![i] =
                    [h1 EXCEPT !.loading = IF h.mountedRef THEN FALSE ELSE @,
                               !.loadingRef = FALSE, !.flight.active = FALSE]]
      /\ UNCHANGED <<storageMode, now, ticks, requests, cacheRead, call, ui>>

\* Promise.all fulfilled: rest of fetchFresh, then load's try and finally
FetchFulfilled(i) ==
  LET h == hook[i]
      fl == h.flight
      fresh == Merged(Val(h.b), Val(fl.sym.val), Val(fl.rat.val), now)
      h1 == applyPayload(h, fresh, now)
  IN  /\ JoinReady(fl)
      /\ storage' = saveCache(Val(h.b), fresh, now)
      /\ hook' = [hook EXCEPT ![i] =
                    [h1 EXCEPT !.loading = IF h.mountedRef THEN FALSE ELSE @,
                               !.loadingRef = FALSE, !.flight.active = FALSE]]
      /\ UNCHANGED <<storageMode, now, ticks, requests, cacheRead, call, ui>>

FirstError(fl) == IF fl.sym.st = "failed" THEN Val(fl.sym.err) ELSE Val(fl.rat.err)

\* a rejection handler that shows the result of the request that succeeded
FetchRejectedPartial(i) ==
  LET h == hook[i]
      fl == h.flight
  IN  /\ JoinFailed(fl)
      /\ hook' = [hook EXCEPT ![i] =
                    [h EXCEPT !.error = IF h.mountedRef THEN Some(FirstError(fl)) ELSE @,
                              !.symbols = IF fl.sym.st = "ok" THEN Val(fl.sym.val) ELSE @,
                              !.rates = IF fl.rat.st = "ok" THEN Val(fl.rat.val).rates ELSE @,
                              !.loading = IF h.mountedRef THEN FALSE ELSE @,
                              !.loadingRef = FALSE, !.flight.active = FALSE]]
      /\ UNCHANGED <<storage, storageMode, now, ticks, requests, cacheRead, call, ui>>

\* a rejection handler that drops the error
FetchRejectedSilent(i) ==
  LET h == hook[i]
      fl == h.flight
  IN  /\ JoinFailed(fl)
      /\ hook' = [hook EXCEPT ![i] =
                    [h EXCEPT !.loading = IF h.mountedRef THEN FALSE ELSE @,
                              !.loadingRef = FALSE, !.flight.active = FALSE]]
      /\ UNCHANGED <<storage, storageMode, now, ticks, requests, cacheRead, call, ui>>

\* a rejection handler that rolls back: the data shown and the cache entry
\* of the base are dropped
FetchRejectedRollsBack(i) ==
  LET h == hook[i]
      fl == h.flight
  IN  /\ JoinFailed(fl)
      /\ hook' = [hook EXCEPT ![i] =
                    [h EXCEPT !.error = IF h.mountedRef THEN Some(FirstError(fl)) ELSE @,
                              !.rates = EmptyTable, !.symbols = EmptyTable,
                              !.date = Undefined, !.lastUpdated = Undefined,
                              !.loading = IF h.mountedRef THEN FALSE ELSE @,
                              !.loadingRef = FALSE, !.flight.active = FALSE]]
      /\ storage' = [storage EXCEPT ![cacheKey(Val(h.b))] = NoItem]
      /\ UNCHANGED <<storageMode, now, ticks, requests, cacheRead, call, ui>>

\* a finally clause that releases the guard only for a mounted consumer
FetchRejectedGuardIfMounted(i) ==
  LET h == hook[i]
      fl == h.flight
  IN  /\ JoinFailed(fl)
      /\ hook' = [hook EXCEPT ![i] =
                    [h EXCEPT !.error = IF h.mountedRef THEN Some(FirstError(fl)) ELSE @,
                              !.loading = IF h.mountedRef THEN FALSE ELSE @,
                              !.loadingRef = IF h.mountedRef THEN FALSE ELSE @,
                              !.flight.active = FALSE]]
      /\ UNCHANGED <<storage, storageMode, now, ticks, requests, cacheRead, call, ui>>

\* Promise.all rejected: load's catch and finally
FetchRejected(i) ==
  LET h == hook[i]
      fl == h.flight
  IN  /\ JoinFailed(fl)
      /\ hook' = [hook EXCEPT ![i] =
                    [h EXCEPT !.error = IF h.mountedRef THEN Some(FirstError(fl)) ELSE @,
                              !.loading = IF h.mountedRef THEN FALSE ELSE @,
                              !.loadingRef = FALSE, !.flight.active = FALSE]]
      /\ UNCHANGED <<storage, storageMode, now, ticks, requests, cacheRead, call, ui>>

(* ------------------------------ environment ---------------------------- *)

Tick(d) ==
  /\ ticks < MaxTicks
  /\ now' = now + d
  /\ ticks' = ticks + 1
  /\ UNCHANGED <<hook, storage, storageMode, requests, cacheRead, call, ui>>

\* an entry left by an earlier session
OldEntry ==
  [base |-> "USD", date |-> Some(DateOf(1)), rates |-> RatesTable("USD", 1),
   symbols |-> SymbolsTable(1), lastUpdated |-> Some(T0 - 1)]

\* an entry whose lastUpdated is not a number
NoStampEntry == [OldEntry EXCEPT !.lastUpdated = Undefined]

InitStorages ==
  { [k \in Codes |-> NoItem],
    [k \in Codes |-> IF k = "USD" THEN Json(OldEntry) ELSE Garbage],
    [k \in Codes |-> IF k = "USD" THEN Json(NoStampEntry) ELSE NoItem] }

NoRead == [done |-> FALSE, base |-> "", at |-> 0, result |-> Undefined]

\* no call of a pure function of the application has been recorded
NoCall == [fn |-> ""]

\* no component of the user interface is mounted
NoUi == [component |-> ""]

Init ==
  /\ hook \in [Instances -> {InitHook(ob, nc) : ob \in {""}, nc \in BOOLEAN}]
  /\ storage \in InitStorages
  /\ storageMode \in StorageModes
  /\ now = T0
  /\ ticks = 0
  /\ requests = <<>>
  /\ cacheRead = NoRead
  /\ call = NoCall
  /\ ui = NoUi

Next ==
  \/ \E i \in DOMAIN hook : RunEffect(i)
  \/ \E i \in DOMAIN hook : refresh(i)
  \/ \E i \in DOMAIN hook : \E ob \in OptBases : ChangeBase(i, ob)
  \/ \E i \in DOMAIN hook : Unmount(i)
  \/ \E i \in DOMAIN hook : \E body \in SymbolsBodies : SymbolsResponse(i, body)
  \/ \E i \in DOMAIN hook : \E e \in HttpErrors : SymbolsFailure(i, e)
  \/ \E i \in DOMAIN hook : RatesResponse(i)
  \/ \E i \in DOMAIN hook : \E e \in HttpErrors : RatesFailure(i, e)
  \/ \E i \in DOMAIN hook : FetchFulfilled(i)
  \/ \E i \in DOMAIN hook : FetchRejected(i)
  \/ \E d \in TickSteps : Tick(d)

Spec == Init /\ [][Next]_vars

\* every effect React has scheduled runs, every request responds or fails
\* (httpGet times out at the latest), and every settled promise has its
\* continuation run
Fairness ==
  \A i \in Instances :
    /\ WF_vars(RunEffect(i))
    /\ WF_vars(\/ \E body \in SymbolsBodies : SymbolsResponse(i, body)
               \/ \E e \in HttpErrors : SymbolsFailure(i, e))
    /\ WF_vars(RatesResponse(i) \/ \E e \in HttpErrors : RatesFailure(i, e))
    /\ WF_vars(FetchFulfilled(i))
    /\ WF_vars(FetchRejected(i))

\* a session whose storage works and holds a fresh entry for USD and an
\* unreadable one for EUR: the first load is a cache hit, a load after a
\* change of base or a refresh is a fetch cycle
InitLive ==
  /\ hook \in [Instances -> {InitHook("", FALSE)}]
  /\ storage \in {st \in InitStorages : st["EUR"] = Garbage}
  /\ storageMode = "ok"
  /\ now = T0
  /\ ticks = 0
  /\ requests = <<>>
  /\ cacheRead = NoRead
  /\ call = NoCall
  /\ ui = NoUi

SpecLive == InitLive /\ [][Next]_vars /\ Fairness

(* ------------------- the cache store on its own ------------------------ *)

\* payloads written by callers of the cache store
CachePayloads ==
  { Merged(b, SymbolsTable(1), getDailyRates(body, b), 0) :
      b \in {"USD"}, body \in {PlainBody("object")} \cup
        {[PlainBody("object") EXCEPT !.base = Some("USD"), !.rates = Some(RatesTable("USD", 1))]} }

CacheSteps == {1, TTL_MS - 1}

CacheWrite(base, payload) ==
  /\ storage' = saveCache(base, payload, now)
  /\ UNCHANGED <<hook, storageMode, now, ticks, requests, cacheRead, call, ui>>

CacheRead(base) ==
  /\ cacheRead' = [done |-> TRUE, base |-> base, at |-> now, result |-> loadCache(base)]
  /\ UNCHANGED <<hook, storage, storageMode, now, ticks, requests, call, ui>>

CacheTick(d) ==
  /\ ticks < MaxCacheTicks
  /\ now' = now + d
  /\ ticks' = ticks + 1
  /\ UNCHANGED <<hook, storage, storageMode, requests, cacheRead, call, ui>>

InitCache ==
  /\ hook = [i \in {} |-> InitHook("", FALSE)]
  /\ storage = [k \in Codes |-> NoItem]
  /\ storageMode \in StorageModes
  /\ now = T0
  /\ ticks = 0
  /\ requests = <<>>
  /\ cacheRead = NoRead
  /\ call = NoCall
  /\ ui = NoUi

NextCache ==
  \/ \E base \in OptBases : \E payload \in CachePayloads : CacheWrite(base, payload)
  \/ \E base \in OptBases : CacheRead(base)
  \/ \E d \in CacheSteps : CacheTick(d)

SpecCache == InitCache /\ [][NextCache]_vars

(* ------------------- the cache store, entries of two bases ------------- *)

\* the payload fetchFresh saves for options.base = optBase when the backend
\* answers for the base it was asked for
KeyedPayload(optBase) ==
  LET b == InitHook(optBase, FALSE).base
  IN  Merged(b, SymbolsTable(1),
             [base |-> b, date |-> Some(DateOf(1)), rates |-> RatesTable(b, 1)], now)

InitKeys ==
  /\ hook = [i \in {} |-> InitHook("", FALSE)]
  /\ storage = [k \in Codes |-> NoItem]
  /\ storageMode \in {"ok", "full"}
  /\ now = T0
  /\ ticks = 0
  /\ requests = <<>>
  /\ cacheRead = NoRead
  /\ call = NoCall
  /\ ui = NoUi

NextKeys ==
  \/ \E optBase \in OptBases : CacheWrite(optBase, KeyedPayload(optBase))
  \/ \E optBase \in OptBases : CacheRead(optBase)
  \/ \E d \in CacheSteps : CacheTick(d)

SpecKeys == InitKeys /\ [][NextKeys]_vars

(* ------------------- two controllers, one storage ---------------------- *)

\* the CurrencyConverter and DailyRates components each call useDailyRates
Components == {1, 2}

InitShared ==
  /\ hook = [i \in Components |-> InitHook("", FALSE)]
  /\ storage \in {[k \in Codes |-> NoItem],
                  [k \in Codes |-> IF k = "USD" THEN Json(OldEntry) ELSE NoItem]}
  /\ storageMode = "ok"
  /\ now = T0
  /\ ticks = 0
  /\ requests = <<>>
  /\ cacheRead = NoRead
  /\ call = NoCall
  /\ ui = NoUi

\* the backend of the two components answers in the direct shapes
DirectSymbols == [PlainBody("object") EXCEPT !.symbols = Some(SymbolsTable(1))]

DirectRates(b) == [base |-> b, date |-> Some(DateOf(1)), rates |-> RatesTable(b, 1)]

NextShared ==
  \/ \E i \in DOMAIN hook : RunEffect(i)
  \/ \E i \in DOMAIN hook : refresh(i)
  \/ \E i \in DOMAIN hook : SymbolsResponse(i, DirectSymbols)
  \/ \E i \in DOMAIN hook :
        RatesResponse(i) /\ hook'[i].flight.rat = Fulfilled(DirectRates(hook[i].base))
  \/ \E i \in DOMAIN hook : FetchFulfilled(i)
  \/ \E d \in TickSteps : Tick(d)

SpecShared == InitShared /\ [][NextShared]_vars

(* ---------------- two controllers, a backend of another shape ---------- *)

\* what getDailyRates returns for a body of an unrecognised shape
DegradedRates(b) == getDailyRates(PlainBody("object"), b)

InitDegraded ==
  /\ hook = [i \in Components |-> InitHook("", FALSE)]
  /\ storage = [k \in Codes |-> NoItem]
  /\ storageMode \in {"ok", "full"}
  /\ now = T0
  /\ ticks = 0
  /\ requests = <<>>
  /\ cacheRead = NoRead
  /\ call = NoCall
  /\ ui = NoUi

\* the backend answers the symbols request as expected and the rates request
\* with an object that has neither rates nor data
NextDegraded ==
  \/ \E i \in DOMAIN hook : RunEffect(i)
  \/ \E i \in DOMAIN hook : refresh(i)
  \/ \E i \in DOMAIN hook : SymbolsResponse(i, DirectSymbols)
  \/ \E i \in DOMAIN hook :
        RatesResponse(i) /\ hook'[i].flight.rat = Fulfilled(DegradedRates(hook[i].base))
  \/ \E i \in DOMAIN hook : FetchFulfilled(i)
  \/ \E d \in TickSteps : Tick(d)

SpecDegraded == InitDegraded /\ [][NextDegraded]_vars

(* ------------------------------ numbers -------------------------------- *)

(* A JavaScript number is NaN, an infinity or a finite value.  A finite     *)
(* value is a binary floating-point number +-m * 2^j / Unit with a         *)
(* mantissa m of MantissaBits bits and an exponent j in 0..MaxExponent;    *)
(* Fin(n) is the number n / Unit.  Decimal literals and the results of *   *)
(* and / are rounded to the nearest representable value, ties to the even  *)
(* mantissa; what exceeds MaxFinite becomes an infinity and what is too    *)
(* small is rounded into the subnormal range or to zero, as IEEE 754       *)
(* arithmetic does.                                                        *)

MantissaBits == 6

MaxExponent == 10

\* the number 1 in multiples of the smallest subnormal
Unit == 2^(MantissaBits + 3)

MaxFinite == (2^MantissaBits - 1) * 2^MaxExponent

\* the smallest normal magnitude
MinNormal == 2^(MantissaBits - 1)

NaN == [k |-> "nan", v |-> 0]

Infinity(sgn) == [k |-> "inf", v |-> sgn]

Fin(n) == [k |-> "fin", v |-> n]

\* a value that is not a number (a string)
NotANumber == [k |-> "str", v |-> 0]

Abs(n) == IF n < 0 THEN -n ELSE n

Sgn(n) == IF n < 0 THEN -1 ELSE 1

\* the exponent at which the magnitude p / q is represented
ExponentOf(p, q) ==
  LET fits == {j \in 0..MaxExponent : p < q * 2^(MantissaBits + j)}
  IN  IF fits = {} THEN MaxExponent
      ELSE CHOOSE j \in fits : \A j2 \in fits : j <= j2

\* the number nearest to sgn * p / q thousandths
Round(sgn, p, q) ==
  LET d == q * 2^ExponentOf(p, q)
      m == p \div d
      r == p % d
      up == 2 * r > d \/ (2 * r = d /\ m % 2 = 1)
      n == (IF up THEN m + 1 ELSE m) * 2^ExponentOf(p, q)
  IN  IF n > MaxFinite THEN Infinity(sgn) ELSE Fin(sgn * n)

isFinite(x) == x.k = "fin"

\* x * y
Times(x, y) ==
  IF x.k = "nan" \/ y.k = "nan" THEN NaN
  ELSE IF x.k = "inf" \/ y.k = "inf"
  THEN (IF x.v = 0 \/ y.v = 0 THEN NaN ELSE Infinity(Sgn(x.v) * Sgn(y.v)))
  ELSE Round(Sgn(x.v) * Sgn(y.v), Abs(x.v) * Abs(y.v), Unit)

\* x / y
Over(x, y) ==
  IF x.k = "nan" \/ y.k = "nan" THEN NaN
  ELSE IF x.k = "inf" THEN (IF y.k = "inf" THEN NaN ELSE Infinity(Sgn(x.v) * Sgn(y.v)))
  ELSE IF y.k = "inf" THEN Fin(0)
  ELSE IF y.v = 0 THEN (IF x.v = 0 THEN NaN ELSE Infinity(Sgn(x.v)))
  ELSE Round(Sgn(x.v) * Sgn(y.v), Abs(x.v) * Unit, Abs(y.v))

\* the number a decimal literal of so many thousandths denotes
Num(milli) == Round(Sgn(milli), Abs(milli) * Unit, 1000)

\* a rates table of the controller, kept in thousandths, as a table of numbers
AsNumbers(table) == [c \in DOMAIN table |-> Num(table[c])]

(* ----------------------------- conversion ------------------------------ *)

defaultBaseCurrency == "USD"

\* r(code) that takes a missing rate as 1
RateForMissingAsOne(code, rates, b) ==
  IF code = b THEN Fin(Unit)
  ELSE IF code \in DOMAIN rates /\ rates[code].k = "fin" THEN rates[code]
  ELSE Fin(Unit)

\* r(code) of convertAmount
RateFor(code, rates, b) ==
  IF code = b THEN Fin(Unit)
  ELSE IF code \in DOMAIN rates /\ rates[code].k = "fin" THEN rates[code]
  ELSE NaN

\* convertAmount without the from === to shortcut
convertAmountNoShortcut(amount, from, to, rates, base) ==
  LET b == toUpperCase(IF IsDefined(base) THEN Val(base) ELSE defaultBaseCurrency)
      rf == RateFor(toUpperCase(from), rates, b)
      rt == RateFor(toUpperCase(to), rates, b)
  IN  IF ~isFinite(amount) \/ ~isFinite(rf) \/ ~isFinite(rt) THEN NaN
      ELSE Times(Over(amount, rf), rt)

\* convertAmount that never divides
convertAmountNoDivision(amount, from, to, rates, base) ==
  LET f == toUpperCase(from)
      t == toUpperCase(to)
      b == toUpperCase(IF IsDefined(base) THEN Val(base) ELSE defaultBaseCurrency)
      rf == RateFor(f, rates, b)
      rt == RateFor(t, rates, b)
      inBase == IF f = b THEN amount ELSE Times(amount, rf)
  IN  IF ~isFinite(amount) THEN NaN
      ELSE IF f = t THEN amount
      ELSE IF ~isFinite(rf) \/ ~isFinite(rt) THEN NaN
      ELSE IF t = b THEN inBase ELSE Times(inBase, rt)

\* convertAmount with the two rates exchanged
convertAmountSwapped(amount, from, to, rates, base) ==
  LET f == toUpperCase(from)
      t == toUpperCase(to)
      b == toUpperCase(IF IsDefined(base) THEN Val(base) ELSE defaultBaseCurrency)
      rf == RateFor(f, rates, b)
      rt == RateFor(t, rates, b)
      inBase == IF f = b THEN amount ELSE Times(amount, rf)
  IN  IF ~isFinite(amount) THEN NaN
      ELSE IF f = t THEN amount
      ELSE IF ~isFinite(rf) \/ ~isFinite(rt) THEN NaN
      ELSE IF t = b THEN inBase ELSE Over(inBase, rt)

convertAmount(amount, from, to, rates, base) ==
  LET f == toUpperCase(from)
      t == toUpperCase(to)
      b == toUpperCase(IF IsDefined(base) THEN Val(base) ELSE defaultBaseCurrency)
      rf == RateFor(f, rates, b)
      rt == RateFor(t, rates, b)
      inBase == IF f = b THEN amount ELSE Over(amount, rf)
  IN  IF ~isFinite(amount) THEN NaN
      ELSE IF f = t THEN amount
      ELSE IF ~isFinite(rf) \/ ~isFinite(rt) THEN NaN
      ELSE IF t = b THEN inBase ELSE Times(inBase, rt)

\* arguments convertAmount is called with; "" is a missing code
ConvAmounts ==
  {Num(0), Fin(1), Num(7), Num(300), Num(1000), Num(10000), Num(100000), Num(-2500),
   Fin(MaxFinite), NaN, Infinity(1), NotANumber}

ConvCodes == {"USD", "EUR", "GBP", "ZZZ", "eur", ""}

ConvBases == {Undefined, Some("USD"), Some("EUR")}

ConvTables ==
  { EmptyTable,
    [c \in {"EUR"} |-> Num(900)],
    [c \in {"EUR", "GBP"} |-> IF c = "EUR" THEN Num(900) ELSE Num(800)],
    [c \in {"EUR", "USD"} |-> IF c = "EUR" THEN Num(900) ELSE Num(2000)],
    [c \in {"EUR", "GBP"} |-> IF c = "EUR" THEN Num(1500) ELSE Num(3)],
    [c \in {"EUR", "GBP"} |-> IF c = "EUR" THEN Num(3) ELSE Num(3000)],
    [c \in {"EUR", "GBP"} |-> IF c = "EUR" THEN Num(0) ELSE Num(800)],
    [c \in {"EUR", "GBP"} |-> IF c = "EUR" THEN NaN ELSE Infinity(1)],
    [c \in {"EUR", "USD"} |-> IF c = "EUR" THEN NotANumber ELSE Num(900)] }

\* a call of convertAmount; orig is the amount the argument was converted
\* from when the call converts a result back
Convert(amount, from, to, rates, base) ==
  /\ call = NoCall
  /\ call' = [fn |-> "convertAmount", amount |-> amount, from |-> from, to |-> to,
              rates |-> rates, base |-> base, orig |-> Undefined,
              result |-> convertAmount(amount, from, to, rates, base)]
  /\ UNCHANGED <<hook, storage, storageMode, now, ticks, requests, cacheRead, ui>>

\* the result of the last call converted in the opposite direction
ConvertBack ==
  /\ call.fn = "convertAmount"
  /\ ~IsDefined(call.orig)
  /\ call' = [call EXCEPT !.amount = call.result, !.from = call.to, !.to = call.from,
                          !.orig = Some(call.amount),
                          !.result = convertAmount(call.result, call.to, call.from,
                                                   call.rates, call.base)]
  /\ UNCHANGED <<hook, storage, storageMode, now, ticks, requests, cacheRead, ui>>

InitConvert ==
  /\ hook = [i \in {} |-> InitHook("", FALSE)]
  /\ storage = [k \in Codes |-> NoItem]
  /\ storageMode = "ok"
  /\ now = T0
  /\ ticks = 0
  /\ requests = <<>>
  /\ cacheRead = NoRead
  /\ call = NoCall
  /\ ui = NoUi

NextConvert ==
  \/ /\ call = NoCall
     /\ \E amount \in ConvAmounts : \E from \in ConvCodes : \E to \in ConvCodes :
          \E rates \in ConvTables : \E base \in ConvBases :
            Convert(amount, from, to, rates, base)
  \/ ConvertBack

SpecConvert == InitConvert /\ [][NextConvert]_vars

(* --------------------------- endpoint resolver ------------------------- *)

(* A URL setting is a sequence of pieces: " " is white space, "/" a slash, *)
(* any other piece a run of other characters.                              *)

RECURSIVE trimStart(_)
trimStart(s) == IF s # <<>> /\ Head(s) = " " THEN trimStart(Tail(s)) ELSE s

RECURSIVE trimEnd(_)
trimEnd(s) ==
  IF s # <<>> /\ s[Len(s)] = " " THEN trimEnd(SubSeq(s, 1, Len(s) - 1)) ELSE s

trim(s) == trimEnd(trimStart(s))

\* str of config/env.js with blank settings taken as set
strBlankIsSet(v) == IF IsDefined(v) THEN Some(trim(Val(v))) ELSE Undefined

\* str of config/env.js
str(v) ==
  IF IsDefined(v) /\ Len(trim(Val(v))) > 0 THEN Some(trim(Val(v))) ELSE Undefined

\* the origin getBaseUrl falls back to without a window
LocalhostOrigin == <<"http://localhost">>

\* getBaseUrl that prefers REACT_APP_BACKEND_URL
getBaseUrlBackendFirst(env, origin) ==
  IF IsDefined(str(env.REACT_APP_BACKEND_URL)) THEN Val(str(env.REACT_APP_BACKEND_URL))
  ELSE IF IsDefined(str(env.REACT_APP_API_BASE)) THEN Val(str(env.REACT_APP_API_BASE))
  ELSE IF IsDefined(origin) /\ Val(origin) # <<>> THEN Val(origin)
  ELSE LocalhostOrigin

\* getBaseUrl() for the environment env and window.location.origin
getBaseUrl(env, origin) ==
  IF IsDefined(str(env.REACT_APP_API_BASE)) THEN Val(str(env.REACT_APP_API_BASE))
  ELSE IF IsDefined(str(env.REACT_APP_BACKEND_URL)) THEN Val(str(env.REACT_APP_BACKEND_URL))
  ELSE IF IsDefined(origin) /\ Val(origin) # <<>> THEN Val(origin)
  ELSE LocalhostOrigin

EXTERNAL_FALLBACK_BASE == <<"https://api.exchangerate.host">>

RECURSIVE stripTrailingSlash(_)
stripTrailingSlash(s) ==
  IF s # <<>> /\ s[Len(s)] = "/" THEN stripTrailingSlash(SubSeq(s, 1, Len(s) - 1)) ELSE s

\* safeString of services/api.js on a URL
safeStringUrl(v) == IF Len(trim(v)) > 0 THEN Some(trim(v)) ELSE Undefined

resolveApiBase(env, origin) ==
  LET envBase == safeStringUrl(getBaseUrl(env, origin))
  IN  IF ~IsDefined(envBase) THEN EXTERNAL_FALLBACK_BASE
      ELSE IF /\ IsDefined(origin) /\ Val(origin) # <<>>
              /\ stripTrailingSlash(Val(envBase)) = stripTrailingSlash(Val(origin))
      THEN EXTERNAL_FALLBACK_BASE
      ELSE Val(envBase)

\* values of REACT_APP_API_BASE and REACT_APP_BACKEND_URL
EnvSettings ==
  { Undefined, Some(<<>>), Some(<<" ">>), Some(<<" ", " ">>),
    Some(<<"https://api.example.com">>),
    Some(<<"https://api.example.com", "/">>),
    Some(<<" ", "https://api.example.com", " ">>),
    Some(<<"https://backend.example.com">>),
    Some(<<"https://app.example.com">>),
    Some(<<"https://app.example.com", "/", "/">>),
    Some(<<" ", "https://app.example.com", "/", " ">>) }

\* window.location.origin; undefined without a window
Origins == {Undefined, Some(<<"https://app.example.com">>), Some(<<"https://backend.example.com">>)}

\* the API base is resolved for an environment and an origin
Resolve(primary, secondary, origin) ==
  LET env == [REACT_APP_API_BASE |-> primary, REACT_APP_BACKEND_URL |-> secondary]
  IN  /\ call = NoCall
      /\ call' = [fn |-> "resolveApiBase", primary |-> primary, secondary |-> secondary,
                  origin |-> origin, candidate |-> getBaseUrl(env, origin),
                  result |-> resolveApiBase(env, origin)]
      /\ UNCHANGED <<hook, storage, storageMode, now, ticks, requests, cacheRead, ui>>

InitResolve ==
  /\ hook = [i \in {} |-> InitHook("", FALSE)]
  /\ storage = [k \in Codes |-> NoItem]
  /\ storageMode = "ok"
  /\ now = T0
  /\ ticks = 0
  /\ requests = <<>>
  /\ cacheRead = NoRead
  /\ call = NoCall
  /\ ui = NoUi

NextResolve ==
  \E primary \in EnvSettings : \E secondary \in EnvSettings : \E origin \in Origins :
    Resolve(primary, secondary, origin)

SpecResolve == InitResolve /\ [][NextResolve]_vars

(* ------------------------------ HTTP client ---------------------------- *)

defaultTimeoutMs == 12000

\* the timeoutMs option of a request
TimeoutOptions == {Undefined, Some(defaultTimeoutMs \div 2)}

\* what fetch resolves with: the status line and whether the content type
\* is JSON
Responses ==
  [ok : {TRUE}, status : {200}, isJson : BOOLEAN]
    \cup [ok : {FALSE}, status : {404, 500}, isJson : BOOLEAN]

\* bodies res.json() parses
JsonBodies ==
  { PlainBody("object"), PlainBody("null"),
    [PlainBody("object") EXCEPT !.symbols = Some(SymbolsTable(1))] }

\* what res.text() reads
TextBody == PlainBody("string")

\* details an error response carries
Details == {"", "not found"}

\* errors raised inside the try block
AbortError == [name |-> "AbortError", message |-> "The operation was aborted"]

FetchError == [name |-> "TypeError", message |-> "Failed to fetch"]

ParseError == [name |-> "SyntaxError", message |-> "Unexpected token"]

StatusError(res, detail) ==
  [name |-> "Error",
   message |-> "[api] Request failed: " \o ToString(res.status)
                 \o (IF detail # "" THEN " - " \o detail ELSE ""),
   status |-> res.status]

\* the catch clause: the error the caller receives for an error raised in
\* the try block
catch(err) ==
  IF err.name = "AbortError"
  THEN TimeoutErr
  ELSE [message |-> "[api] " \o err.message, cause |-> err]

\* clearTimeout only after a value was returned
finallyOnReturn(h) ==
  [h EXCEPT !.pc = "done",
            !.timer = IF @ = "armed" /\ Val(h.outcome).kind = "return"
                      THEN "cleared" ELSE @]

\* the finally clause
finally(h) ==
  [h EXCEPT !.pc = "done", !.timer = IF @ = "armed" THEN "cleared" ELSE @]

throwInTry(h, err) ==
  finally([h EXCEPT !.outcome = Some([kind |-> "throw", error |-> catch(err)])])

returnInTry(h, value) ==
  finally([h EXCEPT !.outcome = Some([kind |-> "return", value |-> value])])

Deadline(h) == h.start + h.timeoutMs

\* an event of the network is delivered before the timer is due
BeforeDeadline(h) == h.timer = "armed" /\ now < Deadline(h)

\* httpGet is called: the timer is armed and fetch is awaited
httpGet(timeoutOpt) ==
  /\ call = NoCall
  /\ call' = [fn |-> "httpGet",
              timeoutMs |-> IF IsDefined(timeoutOpt) THEN Val(timeoutOpt) ELSE defaultTimeoutMs,
              start |-> now, timer |-> "armed", aborted |-> FALSE, pc |-> "fetch",
              res |-> Undefined, outcome |-> Undefined]
  /\ UNCHANGED <<hook, storage, storageMode, now, ticks, requests, cacheRead, ui>>

\* fetch resolves with a response: the body is awaited next
FetchResolves(res) ==
  /\ call.fn = "httpGet" /\ call.pc = "fetch" /\ BeforeDeadline(call)
  /\ call' = [call EXCEPT !.res = Some(res),
                          !.pc = IF res.ok THEN "body" ELSE "detail"]
  /\ UNCHANGED <<hook, storage, storageMode, now, ticks, requests, cacheRead, ui>>

\* fetch rejects: the network failed
FetchRejects ==
  /\ call.fn = "httpGet" /\ call.pc = "fetch" /\ BeforeDeadline(call)
  /\ call' = throwInTry(call, FetchError)
  /\ UNCHANGED <<hook, storage, storageMode, now, ticks, requests, cacheRead, ui>>

\* the body of a success response is read
BodyResolves(body) ==
  /\ call.fn = "httpGet" /\ call.pc = "body" /\ BeforeDeadline(call)
  /\ IF Val(call.res).isJson THEN body \in JsonBodies ELSE body = TextBody
  /\ call' = returnInTry(call, body)
  /\ UNCHANGED <<hook, storage, storageMode, now, ticks, requests, cacheRead, ui>>

\* reading the body of a success response fails
BodyRejects(err) ==
  /\ call.fn = "httpGet" /\ call.pc = "body" /\ BeforeDeadline(call)
  /\ err = ParseError => Val(call.res).isJson
  /\ call' = throwInTry(call, err)
  /\ UNCHANGED <<hook, storage, storageMode, now, ticks, requests, cacheRead, ui>>

\* the body of an error response is read, or reading it fails and the
\* failure is ignored (detail = ""): the status error is raised
DetailSettles(detail) ==
  /\ call.fn = "httpGet" /\ call.pc = "detail" /\ BeforeDeadline(call)
  /\ call' = throwInTry(call, StatusError(Val(call.res), detail))
  /\ UNCHANGED <<hook, storage, storageMode, now, ticks, requests, cacheRead, ui>>

\* the timer fires: controller.abort() rejects the pending fetch or body
\* read with an AbortError; the read of an error body ignores it
TimerFires ==
  /\ call.fn = "httpGet" /\ call.timer = "armed" /\ now >= Deadline(call)
  /\ LET h == [call EXCEPT !.timer = "fired", !.aborted = TRUE]
     IN  call' = CASE h.pc = "fetch" -> throwInTry(h, AbortError)
                   [] h.pc = "body" -> throwInTry(h, AbortError)
                   [] h.pc = "detail" -> throwInTry(h, StatusError(Val(h.res), ""))
                   [] OTHER -> h
  /\ UNCHANGED <<hook, storage, storageMode, now, ticks, requests, cacheRead, ui>>

\* time passes, up to the moment the armed timer is due
HttpTick ==
  /\ call.fn = "httpGet"
  /\ LET d == defaultTimeoutMs \div 4
     IN  /\ now + d <= call.start + defaultTimeoutMs
         /\ call.timer = "armed" => now + d <= Deadline(call)
         /\ now' = now + d
  /\ UNCHANGED <<hook, storage, storageMode, ticks, requests, cacheRead, call, ui>>

InitHttp ==
  /\ hook = [i \in {} |-> InitHook("", FALSE)]
  /\ storage = [k \in Codes |-> NoItem]
  /\ storageMode = "ok"
  /\ now = T0
  /\ ticks = 0
  /\ requests = <<>>
  /\ cacheRead = NoRead
  /\ call = NoCall
  /\ ui = NoUi

NextHttp ==
  \/ \E timeoutOpt \in TimeoutOptions : httpGet(timeoutOpt)
  \/ \E res \in Responses : FetchResolves(res)
  \/ FetchRejects
  \/ \E body \in JsonBodies \cup {TextBody} : BodyResolves(body)
  \/ \E err \in {ParseError, FetchError} : BodyRejects(err)
  \/ \E detail \in Details : DetailSettles(detail)
  \/ TimerFires
  \/ HttpTick

SpecHttp == InitHttp /\ [][NextHttp]_vars

(* --------------------------- rates service alone ----------------------- *)

\* the properties a nested data object may have
InnerObjects ==
  [base : {Undefined, Some("EUR")}, date : {Undefined, Some(DateOf(1))},
   rates : {Undefined, Some(RatesTable("EUR", 1))},
   symbols : {Undefined, Some(SymbolsTable(1))}]

\* the bodies httpGet may return: null, a text, a number, an array, and
\* objects with any of the expected properties present or missing
\* (data: null and a missing data are both Undefined)
ServiceBodies ==
  { PlainBody(t) : t \in {"null", "string", "number", "array"} }
    \cup [type : {"object"},
          base : {Undefined, Some(""), Some("USD")},
          date : {Undefined, Some(DateOf(1))},
          rates : {Undefined, Some(EmptyTable), Some(RatesTable("USD", 1))},
          symbols : {Undefined, Some(TextValue), Some(SymbolsTable(2))},
          data : {Undefined} \cup {Some(d) : d \in InnerObjects}]

\* the errors httpGet may throw
HttpGetErrors ==
  { TimeoutErr, catch(FetchError), catch(ParseError),
    catch(StatusError([ok |-> FALSE, status |-> 500, isJson |-> TRUE], "")) }

\* the ways the awaited httpGet may settle
HttpOutcomes ==
  { [kind |-> "return", value |-> body] : body \in ServiceBodies }
    \cup { [kind |-> "throw", error |-> e] : e \in HttpGetErrors }

\* how the service function settles: a rejection of httpGet propagates, a
\* TypeError raised while normalising is thrown, a value is returned
ServiceOutcome(http, value) ==
  IF http.kind = "throw" THEN http
  ELSE IF value = TypeErrorThrown THEN [kind |-> "throw", error |-> value]
  ELSE [kind |-> "return", value |-> value]

\* getDailyRates({base: optsBase}) is called and httpGet settles with http
DailyRatesCall(optsBase, http) ==
  /\ call = NoCall
  /\ call' = [fn |-> "getDailyRates", base |-> optsBase, http |-> http,
              outcome |-> ServiceOutcome(http,
                 IF http.kind = "return" THEN getDailyRates(http.value, optsBase)
                                         ELSE EmptyTable)]
  /\ UNCHANGED <<hook, storage, storageMode, now, ticks, requests, cacheRead, ui>>

\* getSymbols() is called and httpGet settles with http
SymbolsCall(http) ==
  /\ call = NoCall
  /\ call' = [fn |-> "getSymbols", base |-> "", http |-> http,
              outcome |-> ServiceOutcome(http,
                 IF http.kind = "return" THEN getSymbols(http.value) ELSE EmptyTable)]
  /\ UNCHANGED <<hook, storage, storageMode, now, ticks, requests, cacheRead, ui>>

InitService ==
  /\ hook = [i \in {} |-> InitHook("", FALSE)]
  /\ storage = [k \in Codes |-> NoItem]
  /\ storageMode = "ok"
  /\ now = T0
  /\ ticks = 0
  /\ requests = <<>>
  /\ cacheRead = NoRead
  /\ call = NoCall
  /\ ui = NoUi

NextService ==
  \/ call = NoCall /\ \E optsBase \in {"", "USD", "EUR"} : \E http \in HttpOutcomes :
       DailyRatesCall(optsBase, http)
  \/ call = NoCall /\ \E http \in HttpOutcomes : SymbolsCall(http)

SpecService == InitService /\ [][NextService]_vars

(* --------------------------- currency converter ------------------------ *)

\* selections by the user per mounted converter
MaxUserActs == 1

\* symbols the controller may deliver to the converter
WideSymbols ==
  [c \in {"EUR", "GBP", "USD"} |->
     IF c = "EUR" THEN "Euro" ELSE IF c = "GBP" THEN "Pound" ELSE "US Dollar"]

ConverterSymbols == {EmptyTable, SymbolsTable(2), WideSymbols}

\* what localStorage may hold under 'cc_hub_conv_last_v1' when the converter
\* mounts: nothing, text that is not JSON, or a selection an earlier session
\* (or another writer) left
StoredSelections ==
  {NoItem, Garbage}
    \cup { Json([amount |-> a, from |-> f, to |-> t]) :
             a \in {"", "10"}, f \in {"USD", "GBP", "eur"}, t \in {"EUR", "GBP"} }

loadSelection(item) ==
  IF item.kind # "json"
  THEN Undefined
  ELSE Some([amount |-> Val(item.data).amount,
             from |-> toUpperCase(Val(item.data).from),
             to |-> toUpperCase(Val(item.data).to)])

persistSelection(state) ==
  Json([amount |-> state.amount, from |-> toUpperCase(state.from),
        to |-> toUpperCase(state.to)])

\* the effects whose dependencies a change of from or to touches
SelectionEffects == {"persist", "validate"}

\* the converter mounts: the stored selection is restored, the controller
\* starts with empty symbols, and every effect is due after the first render
MountConverter(item) ==
  /\ ui = NoUi
  /\ LET restored == loadSelection(item)
     IN  ui' = [component |-> "CurrencyConverter",
                restored |-> restored,
                amountInput |-> IF IsDefined(restored) THEN Val(restored).amount ELSE "",
                from |-> IF IsDefined(restored) THEN Val(restored).from ELSE defaultBaseCurrency,
                to |-> IF IsDefined(restored) THEN Val(restored).to ELSE "EUR",
                symbols |-> EmptyTable,
                loading |-> TRUE,
                stored |-> item,
                effects |-> SelectionEffects,
                userActs |-> 0]
  /\ UNCHANGED <<hook, storage, storageMode, now, ticks, requests, cacheRead, call>>

\* the validation effect: a code that is not among the symbols is replaced
\* by its default
Validated(c) ==
  [from |-> IF c.from \in DOMAIN c.symbols THEN c.from ELSE defaultBaseCurrency,
   to |-> IF c.to \in DOMAIN c.symbols THEN c.to ELSE "EUR"]

\* the effects due after a render run, in the order of their declaration,
\* with the values of that render; the state they set is rendered next
RunConverterEffects ==
  /\ ui.component = "CurrencyConverter"
  /\ ui.effects # {}
  /\ LET safe == IF "validate" \in ui.effects THEN Validated(ui)
                 ELSE [from |-> ui.from, to |-> ui.to]
         changed == safe.from # ui.from \/ safe.to # ui.to
     IN  ui' = [ui EXCEPT
                  !.stored = IF "persist" \in ui.effects
                             THEN persistSelection([amount |-> ui.amountInput,
                                                    from |-> ui.from, to |-> ui.to])
                             ELSE @,
                  !.from = safe.from,
                  !.to = safe.to,
                  !.effects = IF changed THEN SelectionEffects ELSE {}]
  /\ UNCHANGED <<hook, storage, storageMode, now, ticks, requests, cacheRead, call>>

\* the controller delivers the symbols of a cache hit or of a fetch cycle
SymbolsLoaded(symbols) ==
  /\ ui.component = "CurrencyConverter"
  /\ ui.loading
  /\ ui' = [ui EXCEPT !.symbols = symbols, !.loading = FALSE,
                      !.effects = @ \cup {"validate"}]
  /\ UNCHANGED <<hook, storage, storageMode, now, ticks, requests, cacheRead, call>>

\* the user picks a currency in the From select
setFrom(code) ==
  /\ ui.component = "CurrencyConverter"
  /\ ~ui.loading /\ code \in DOMAIN ui.symbols
  /\ ui.userActs < MaxUserActs
  /\ ui' = [ui EXCEPT !.from = code, !.userActs = @ + 1,
                      !.effects = IF code # ui.from THEN @ \cup SelectionEffects ELSE @]
  /\ UNCHANGED <<hook, storage, storageMode, now, ticks, requests, cacheRead, call>>

\* the user picks a currency in the To select
setTo(code) ==
  /\ ui.component = "CurrencyConverter"
  /\ ~ui.loading /\ code \in DOMAIN ui.symbols
  /\ ui.userActs < MaxUserActs
  /\ ui' = [ui EXCEPT !.to = code, !.userActs = @ + 1,
                      !.effects = IF code # ui.to THEN @ \cup SelectionEffects ELSE @]
  /\ UNCHANGED <<hook, storage, storageMode, now, ticks, requests, cacheRead, call>>

onSwap ==
  /\ ui.component = "CurrencyConverter"
  /\ ~ui.loading
  /\ ui.userActs < MaxUserActs
  /\ ui' = [ui EXCEPT !.from = ui.to, !.to = ui.from, !.userActs = @ + 1,
                      !.effects = IF ui.from # ui.to THEN @ \cup SelectionEffects ELSE @]
  /\ UNCHANGED <<hook, storage, storageMode, now, ticks, requests, cacheRead, call>>

InitConverter ==
  /\ hook = [i \in {} |-> InitHook("", FALSE)]
  /\ storage = [k \in Codes |-> NoItem]
  /\ storageMode = "ok"
  /\ now = T0
  /\ ticks = 0
  /\ requests = <<>>
  /\ cacheRead = NoRead
  /\ call = NoCall
  /\ ui = NoUi

NextConverter ==
  \/ \E item \in StoredSelections : MountConverter(item)
  \/ RunConverterEffects
  \/ \E symbols \in ConverterSymbols : SymbolsLoaded(symbols)
  \/ \E code \in DOMAIN WideSymbols : setFrom(code)
  \/ \E code \in DOMAIN WideSymbols : setTo(code)
  \/ onSwap

SpecConverter == InitConverter /\ [][NextConverter]_vars

(* -------------------------------- App theme --------------------------- *)

\* toggles of the theme per mounted App
MaxToggles == 5

\* what localStorage may hold under 'theme' before the first session: null
\* or a string
StoredThemes == {Undefined, Some("light"), Some("dark"), Some("blue")}

\* initialTheme: the stored theme if it is one of the two, else the system
\* preference
initialTheme(stored, prefersDark) ==
  IF stored = Some("light") \/ stored = Some("dark")
  THEN Val(stored)
  ELSE IF prefersDark THEN "dark" ELSE "light"

\* the effect on [theme]: the data-theme attribute is set and the theme is
\* stored; a storage error is ignored
applyTheme(app) ==
  [ui |-> [app EXCEPT !.attribute = Some(app.theme)],
   storage |-> IF setItemWorks THEN [storage EXCEPT !["theme"] = Some(app.theme)]
               ELSE storage]

\* the updater of toggleTheme that only ever switches to dark
flipToDark(prev) == "dark"

\* the updater of toggleTheme
flip(prev) == IF prev = "light" THEN "dark" ELSE "light"

\* App mounts: the first render reads the stored theme (and throws when the
\* storage cannot be read), then the effect runs
MountApp(prefersDark) ==
  /\ ui = NoUi
  /\ IF getItemWorks
     THEN LET theme == initialTheme(storage["theme"], prefersDark)
              applied == applyTheme([component |-> "App", initialTheme |-> theme,
                                     theme |-> theme, attribute |-> Undefined,
                                     toggles |-> 0])
          IN  ui' = applied.ui /\ storage' = applied.storage
     ELSE ui' = [component |-> "AppError"] /\ UNCHANGED storage
  /\ UNCHANGED <<hook, storageMode, now, ticks, requests, cacheRead, call>>

\* a click on the toggle: the theme is flipped, App renders again and the
\* effect runs
toggleTheme ==
  /\ ui.component = "App"
  /\ ui.toggles < MaxToggles
  /\ LET applied == applyTheme([ui EXCEPT !.theme = flip(@), !.toggles = @ + 1])
     IN  ui' = applied.ui /\ storage' = applied.storage
  /\ UNCHANGED <<hook, storageMode, now, ticks, requests, cacheRead, call>>

\* the page is closed; localStorage stays
UnmountApp ==
  /\ ui.component \in {"App", "AppError"}
  /\ ui' = NoUi
  /\ UNCHANGED <<hook, storage, storageMode, now, ticks, requests, cacheRead, call>>

\* the storage quota is reached, or space is freed, by other writers
QuotaChanges ==
  /\ storageMode \in {"ok", "full"}
  /\ storageMode' = IF storageMode = "ok" THEN "full" ELSE "ok"
  /\ UNCHANGED <<hook, storage, now, ticks, requests, cacheRead, call, ui>>

InitTheme ==
  /\ hook = [i \in {} |-> InitHook("", FALSE)]
  /\ storage \in [{"theme"} -> StoredThemes]
  /\ storageMode \in StorageModes
  /\ now = T0
  /\ ticks = 0
  /\ requests = <<>>
  /\ cacheRead = NoRead
  /\ call = NoCall
  /\ ui = NoUi

NextTheme ==
  \/ \E prefersDark \in BOOLEAN : MountApp(prefersDark)
  \/ toggleTheme
  \/ UnmountApp
  \/ QuotaChanges

SpecTheme == InitTheme /\ [][NextTheme]_vars

(* ------------------------------ calculator ----------------------------- *)

(* A string of the calculator is a sequence of characters.  A number is an *)
(* integer below MaxValue in magnitude, or a decimal fraction as typed;    *)
(* arithmetic is followed over the integers, where floating-point          *)
(* arithmetic is exact: a commit whose operands or result are not such     *)
(* integers lies outside the model.                                        *)

MaxKeys == 5

MaxValue == 1000

CalcDigitChars == {"0", "1", "2", "3", "4", "5", "6", "7", "8", "9"}

DigitValue(c) == CHOOSE n \in 0..9 : ToString(n) = c

CalcInt(n) == [k |-> "num", sign |-> IF n < 0 THEN -1 ELSE 1, whole |-> Abs(n), frac |-> <<>>]

CalcInfinity == [k |-> "inf", sign |-> 1, whole |-> 0, frac |-> <<>>]

CalcNaN == [k |-> "nan", sign |-> 1, whole |-> 0, frac |-> <<>>]

IsInteger(x) == x.k = "num" /\ x.frac = <<>>

IntOf(x) == x.sign * x.whole

RECURSIVE DropTrailingZeros(_)
DropTrailingZeros(s) ==
  IF s # <<>> /\ s[Len(s)] = "0" THEN DropTrailingZeros(SubSeq(s, 1, Len(s) - 1)) ELSE s

\* s.replace(/^0+(?=\d)/, '')
RECURSIVE DropLeadingZeros(_)
DropLeadingZeros(s) ==
  IF Len(s) > 1 /\ s[1] = "0" /\ s[2] \in CalcDigitChars THEN DropLeadingZeros(Tail(s)) ELSE s

RECURSIVE WholeOf(_)
WholeOf(s) ==
  IF s = <<>> THEN 0 ELSE 10 * WholeOf(SubSeq(s, 1, Len(s) - 1)) + DigitValue(s[Len(s)])

RECURSIVE DigitsOf(_)
DigitsOf(n) == IF n < 10 THEN <<ToString(n)>> ELSE DigitsOf(n \div 10) \o <<ToString(n % 10)>>

\* the place of the first '.' of s, 0 when there is none
DotIndex(s) ==
  IF \E i \in 1..Len(s) : s[i] = "."
  THEN CHOOSE i \in 1..Len(s) : s[i] = "." /\ \A j \in 1..(i - 1) : s[j] # "."
  ELSE 0

IsNumeric(c) == c \in CalcDigitChars \cup {"."}

IsNotDot(c) == c # "."

\* the strings of the model hold no white space, so trim() changes nothing
normalizeNumberString(s) ==
  LET neg == s # <<>> /\ s[1] = "-"
      body == SelectSeq(IF neg THEN Tail(s) ELSE s, IsNumeric)
      d == DotIndex(body)
      intPart == IF d = 0 THEN body ELSE SubSeq(body, 1, d - 1)
      decPart == IF d = 0 THEN <<>> ELSE SelectSeq(SubSeq(body, d + 1, Len(body)), IsNotDot)
      intNorm == IF intPart = <<>> THEN <<"0">> ELSE DropLeadingZeros(intPart)
      out == IF d = 0 THEN intNorm ELSE intNorm \o <<".">> \o decPart
  IN  IF neg /\ out # <<"0">> THEN <<"-">> \o out ELSE out

\* Number(s) of JavaScript for a string without white space or exponent
Number(s) ==
  LET neg == s # <<>> /\ s[1] = "-"
      body == IF neg THEN Tail(s) ELSE s
      d == DotIndex(body)
      intPart == IF d = 0 THEN body ELSE SubSeq(body, 1, d - 1)
      decPart == IF d = 0 THEN <<>> ELSE SubSeq(body, d + 1, Len(body))
      digits == intPart \o decPart
      numeric == /\ \A i \in 1..Len(digits) : digits[i] \in CalcDigitChars
                 /\ (digits # <<>> \/ (d = 0 /\ ~neg))
      frac == DropTrailingZeros(decPart)
      zero == WholeOf(intPart) = 0 /\ frac = <<>>
  IN  IF ~numeric THEN CalcNaN
      ELSE [k |-> "num", sign |-> IF neg /\ ~zero THEN -1 ELSE 1,
            whole |-> WholeOf(intPart), frac |-> frac]

\* String(n) for a finite number
String(n) ==
  (IF n.sign < 0 THEN <<"-">> ELSE <<>>) \o DigitsOf(n.whole)
    \o (IF n.frac = <<>> THEN <<>> ELSE <<".">> \o n.frac)

\* operate over the integers
operate(op, a, b) ==
  CASE op = "+" -> CalcInt(IntOf(a) + IntOf(b))
    [] op = "-" -> CalcInt(IntOf(a) - IntOf(b))
    [] op = "*" -> CalcInt(IntOf(a) * IntOf(b))
    [] op = "/" -> IF IntOf(b) = 0 THEN CalcInfinity
                   ELSE CalcInt(a.sign * b.sign * (a.whole \div b.whole))
    [] OTHER -> b

\* a and b are integers and so is the result of the operation, all within
\* the range of the model, or the operation is a division by zero
Exact(op, a, b) ==
  \/ op = "/" /\ a.k = "num" /\ IsInteger(b) /\ b.whole = 0
  \/ /\ IsInteger(a) /\ IsInteger(b)
     /\ a.whole < MaxValue /\ b.whole < MaxValue
     /\ (op = "/" /\ b.whole # 0) => a.whole % b.whole = 0
     /\ operate(op, a, b).whole < MaxValue

\* the magnitudes of the model lie between 1e-6 and 1e12, so toPrecision is
\* never used, and ten decimals hold every fraction: String(+n.toFixed(10))
\* is String(n)
formatNumber(n) ==
  IF n.k # "num" THEN <<"infinity sign">>
  ELSE IF n.whole = 0 /\ n.frac = <<>> THEN <<"0">>
  ELSE LET text == String(n)
           cut == DropTrailingZeros(text)
       IN  \* str.replace(/\.?0+$/, '')
           IF cut # text /\ cut # <<>> /\ cut[Len(cut)] = "."
           THEN SubSeq(cut, 1, Len(cut) - 1)
           ELSE cut

createCalcState ==
  [display |-> <<"0">>, accumulator |-> Undefined, operator |-> Undefined,
   entering |-> FALSE, error |-> Undefined]

\* inputDigit that takes digits in the error state
inputDigitOnError(state, digit) ==
  IF digit \notin CalcDigitChars THEN state
  ELSE LET next == IF ~state.entering THEN <<digit>>
                   ELSE IF state.display = <<"0">> THEN <<digit>>
                   ELSE state.display \o <<digit>>
       IN  [state EXCEPT !.display = normalizeNumberString(next), !.entering = TRUE]

inputDigit(state, digit) ==
  IF IsDefined(state.error) THEN state
  ELSE IF digit \notin CalcDigitChars THEN state
  ELSE LET next == IF ~state.entering THEN <<digit>>
                   ELSE IF state.display = <<"0">> THEN <<digit>>
                   ELSE state.display \o <<digit>>
       IN  [state EXCEPT !.display = normalizeNumberString(next), !.entering = TRUE]

inputDecimal(state) ==
  IF IsDefined(state.error) THEN state
  ELSE LET next == IF ~state.entering THEN <<"0", ".">>
                   ELSE IF DotIndex(state.display) = 0 THEN state.display \o <<".">>
                   ELSE state.display
       IN  [state EXCEPT !.display = normalizeNumberString(next), !.entering = TRUE]

clearAll == createCalcState

deleteLast(state) ==
  IF IsDefined(state.error) THEN state
  ELSE IF ~state.entering THEN [state EXCEPT !.display = <<"0">>]
  ELSE LET s == state.display
           next == IF Len(s) <= 1 THEN <<"0">> ELSE SubSeq(s, 1, Len(s) - 1)
       IN  [state EXCEPT !.display = normalizeNumberString(next)]

\* commitPending without the test of the result
commitPendingNoCheck(state) ==
  LET b == Number(state.display)
  IN  IF ~IsDefined(state.accumulator) \/ ~IsDefined(state.operator)
      THEN [state EXCEPT !.accumulator = Some(b)]
      ELSE LET result == operate(Val(state.operator), Val(state.accumulator), b)
           IN  [state EXCEPT !.accumulator = Some(result),
                             !.display = formatNumber(result),
                             !.entering = FALSE]

commitPending(state) ==
  LET b == Number(state.display)
  IN  IF ~IsDefined(state.accumulator) \/ ~IsDefined(state.operator)
      THEN [state EXCEPT !.accumulator = Some(b)]
      ELSE LET result == operate(Val(state.operator), Val(state.accumulator), b)
           IN  IF result.k # "num"
               THEN [state EXCEPT !.display = <<"Cannot divide by zero">>,
                                  !.error = Some("DIV_ZERO"),
                                  !.accumulator = Undefined,
                                  !.operator = Undefined,
                                  !.entering = FALSE]
               ELSE [state EXCEPT !.accumulator = Some(result),
                                  !.display = formatNumber(result),
                                  !.entering = FALSE]

setOperator(state, op) ==
  IF IsDefined(state.error) THEN state
  ELSE LET committed == commitPending(state)
       IN  IF IsDefined(committed.error) THEN committed
           ELSE [committed EXCEPT !.operator = Some(op), !.entering = FALSE]

equals(state) ==
  IF IsDefined(state.error) THEN state
  ELSE IF ~IsDefined(state.operator) \/ ~IsDefined(state.accumulator)
  THEN [state EXCEPT !.display = normalizeNumberString(state.display), !.entering = FALSE]
  ELSE LET committed == commitPending(state)
       IN  IF IsDefined(committed.error) THEN committed
           ELSE [committed EXCEPT !.operator = Undefined, !.entering = FALSE]

CalcOps == {"+", "-", "*", "/"}

inputKey(state, key) ==
  IF key \in CalcDigitChars THEN inputDigit(state, key)
  ELSE IF key \in {".", ","} THEN inputDecimal(state)
  ELSE IF key \in {"Escape", "c", "C"} THEN clearAll
  ELSE IF key \in {"Backspace", "d", "D"} THEN deleteLast(state)
  ELSE IF key \in CalcOps THEN setOperator(state, key)
  ELSE IF key \in {"Enter", "="} THEN equals(state)
  ELSE state

\* the digit buttons and the keys pressed in the model
CalcDigits == {"0", "5"}

CalcKeys == {"5", ",", "Escape", "C", "d", "*", "Enter", "Tab"}

\* a press of an operator or of equals in this state commits an operation
Commits(state) ==
  /\ ~IsDefined(state.error)
  /\ IsDefined(state.accumulator) /\ IsDefined(state.operator)

WithinModel(state) ==
  Commits(state)
    => Exact(Val(state.operator), Val(state.accumulator), Number(state.display))

\* setState(next) by the handler named, called with arg
Pressed(handler, arg, next) ==
  /\ ui.component = "calculator"
  /\ ui.keys < MaxKeys
  /\ ui' = [ui EXCEPT !.state = next, !.keys = @ + 1, !.handler = handler, !.arg = arg]
  /\ UNCHANGED <<hook, storage, storageMode, now, ticks, requests, cacheRead, call>>

pressDigit(d) == Pressed("pressDigit", d, inputDigit(ui.state, d))

pressDecimal == Pressed("pressDecimal", "", inputDecimal(ui.state))

pressClear == Pressed("pressClear", "", clearAll)

pressDelete == Pressed("pressDelete", "", deleteLast(ui.state))

pressOp(op) ==
  /\ WithinModel(ui.state)
  /\ Pressed("pressOp", op, setOperator(ui.state, op))

pressEquals ==
  /\ WithinModel(ui.state)
  /\ Pressed("pressEquals", "", equals(ui.state))

onKeyDown(key) ==
  /\ key \in CalcOps \cup {"Enter", "="} => WithinModel(ui.state)
  /\ Pressed("onKeyDown", key, inputKey(ui.state, key))

InitCalc ==
  /\ hook = [i \in {} |-> InitHook("", FALSE)]
  /\ storage = [k \in Codes |-> NoItem]
  /\ storageMode = "ok"
  /\ now = T0
  /\ ticks = 0
  /\ requests = <<>>
  /\ cacheRead = NoRead
  /\ call = NoCall
  /\ ui = [component |-> "calculator", state |-> createCalcState, keys |-> 0,
           handler |-> "", arg |-> ""]

NextCalc ==
  \/ \E d \in CalcDigits : pressDigit(d)
  \/ pressDecimal
  \/ pressClear
  \/ pressDelete
  \/ \E op \in CalcOps : pressOp(op)
  \/ pressEquals
  \/ \E key \in CalcKeys : onKeyDown(key)

SpecCalc == InitCalc /\ [][NextCalc]_vars

(* ------------------------------- claims -------------------------------- *)

\* the data fields of the view
Data(h) == <<h.rates, h.symbols, h.date, h.lastUpdated>>

\* a step in which load() was invoked on controller i
LoadInvoked(i) == hook'[i].calls # hook[i].calls

\* a step in which refresh() was invoked on controller i
RefreshInvoked(i) == LoadInvoked(i) /\ hook'[i].effectPending = hook[i].effectPending

\* a step in which the effect invoked load({force: false}) on controller i
EffectRan(i) == hook[i].effectPending /\ ~hook'[i].effectPending

\* a step in which the fetch cycle of controller i ended
CycleEnded(i) == hook[i].flight.active /\ ~hook'[i].flight.active

\* the stored item for key k is readable, parses and is within the TTL
ValidEntry(k) ==
  /\ storageMode # "unavailable"
  /\ storage[k].kind = "json"
  /\ IsDefined(Val(storage[k].data).lastUpdated)
  /\ now - Val(Val(storage[k].data).lastUpdated) < TTL_MS

\* C1: a load() or refresh() invoked while a fetch cycle is outstanding issues
\* no request and changes neither the view nor the cycle; requests are issued
\* only by a call made while no cycle is outstanding, one symbols request and
\* one rates request at a time.
C1_SingleFlight ==
  [][/\ \A i \in DOMAIN hook :
          (hook[i].loadingRef /\ LoadInvoked(i))
            => /\ requests' = requests
               /\ View(hook'[i]) = View(hook[i])
               /\ hook'[i].flight = hook[i].flight
     /\ requests' # requests
          => \E i \in DOMAIN hook :
               /\ ~hook[i].loadingRef
               /\ requests' = requests \o fetchRequests(i, hook[i].base)]_vars

\* a second call was made while the first cycle was outstanding, and the log
\* holds the two requests of that one cycle
C1_Witness ==
  \E i \in DOMAIN hook :
    /\ hook[i].disableCache
    /\ hook[i].calls = 2
    /\ hook[i].flight.active
    /\ requests = fetchRequests(i, hook[i].base)

\* C2: the result of a fetch cycle started for base A is never applied to the
\* view once the selected base is B # A.
C2_BaseSwitchSafety ==
  [][\A i \in DOMAIN hook :
       (CycleEnded(i) /\ Data(hook'[i]) # Data(hook[i]))
         => hook[i].b = Some(hook'[i].base)]_vars

\* C3: once the effect of a base change has run and no load is outstanding,
\* the load that was last performed is a load for the selected base.
C3_BaseSwitchLoads ==
  \A i \in DOMAIN hook :
    (hook[i].alive /\ ~hook[i].effectPending /\ ~hook[i].loadingRef)
      => hook[i].b = Some(hook[i].base)

\* C4: load({force: false}) with caching enabled and a valid entry for the
\* base ends with loading = false, error = null and the entry's rates,
\* symbols, date and lastUpdated in the view, and issues no request.
C4_CacheHit ==
  [][\A i \in DOMAIN hook :
       (EffectRan(i) /\ ~hook[i].loadingRef /\ ~hook[i].disableCache
          /\ ValidEntry(hook[i].base))
         => LET e == Val(storage[hook[i].base].data)
            IN  /\ ~hook'[i].loading
                /\ hook'[i].error = Undefined
                /\ hook'[i].rates = e.rates
                /\ hook'[i].symbols = e.symbols
                /\ hook'[i].date = e.date
                /\ hook'[i].lastUpdated = e.lastUpdated
                /\ ~hook'[i].loadingRef
                /\ ~hook'[i].flight.active
                /\ requests' = requests]_vars

\* the first load was served the earlier session's entry without a request
C4_Witness ==
  \E i \in DOMAIN hook :
    /\ hook[i].calls = 1
    /\ ~hook[i].loading
    /\ hook[i].error = Undefined
    /\ hook[i].rates = OldEntry.rates
    /\ hook[i].lastUpdated = OldEntry.lastUpdated
    /\ requests = <<>>

\* C5: a fetch cycle issues both requests; the view's data changes during a
\* cycle only when both have succeeded; a cycle of a mounted controller ends
\* Ready with both results when both succeeded, and otherwise in Error with
\* the data untouched.
C5_JoinAllOrNothing ==
  [][\A i \in DOMAIN hook :
       /\ (~hook[i].flight.active /\ hook'[i].flight.active)
            => requests' = requests \o fetchRequests(i, hook[i].base)
       /\ (hook[i].flight.active /\ Data(hook'[i]) # Data(hook[i]))
            => JoinReady(hook[i].flight)
       /\ (CycleEnded(i) /\ hook[i].mountedRef)
            => IF hook[i].flight.sym.st = "ok" /\ hook[i].flight.rat.st = "ok"
               THEN /\ ~hook'[i].loading
                    /\ hook'[i].error = Undefined
                    /\ hook'[i].symbols = Val(hook[i].flight.sym.val)
                    /\ hook'[i].rates = Val(hook[i].flight.rat.val).rates
               ELSE /\ ~hook'[i].loading
                    /\ IsDefined(hook'[i].error)
                    /\ Data(hook'[i]) = Data(hook[i])]_vars

\* the symbols request succeeded, the rates request failed, and the cycle
\* ended in Error without the symbols
C5_Witness ==
  \E i \in DOMAIN hook :
    /\ ~hook[i].flight.active
    /\ hook[i].flight.sym = Fulfilled(SymbolsTable(1))
    /\ hook[i].flight.rat.st = "failed"
    /\ IsDefined(hook[i].error)
    /\ ~hook[i].loading
    /\ hook[i].symbols = EmptyTable

\* C6: whenever a controller whose base is the one its load was made for
\* becomes Ready, the exposed base is the base field of the payload (fresh or
\* cached) the exposed rates come from.
C6_ViewBaseIsPayloadBase ==
  [][\A i \in DOMAIN hook :
       /\ (CycleEnded(i) /\ JoinReady(hook[i].flight) /\ hook[i].mountedRef
             /\ hook[i].b = Some(hook[i].base))
            => hook'[i].base = Val(hook[i].flight.rat.val).base
       /\ (EffectRan(i) /\ ~hook[i].loadingRef /\ ~hook[i].disableCache
             /\ ValidEntry(hook[i].base))
            => hook'[i].base = Val(storage[hook[i].base].data).base]_vars

\* C7: whenever a cache item changes, a fetch cycle whose two requests have
\* both succeeded ends in that step, and the item holds that cycle's rates
\* and that cycle's symbols under the key of the cycle's base.
C7_AtomicCacheWrites ==
  [][\A k \in DOMAIN storage :
       storage'[k] # storage[k]
         => \E i \in DOMAIN hook :
              /\ JoinReady(hook[i].flight)
              /\ CycleEnded(i)
              /\ hook[i].b = Some(k)
              /\ storage'[k].kind = "json"
              /\ Val(storage'[k].data).rates = Val(hook[i].flight.rat.val).rates
              /\ Val(storage'[k].data).symbols = Val(hook[i].flight.sym.val)]_vars

\* an entry written in this session with a rates table and a symbols table
C7_Witness ==
  \E k \in DOMAIN storage :
    /\ storage[k].kind = "json"
    /\ Val(storage[k].data).lastUpdated = Some(T0)
    /\ Val(storage[k].data).rates # EmptyTable
    /\ Val(storage[k].data).symbols # EmptyTable

C9_RefreshForces ==
  [][\A i \in DOMAIN hook :
       /\ (RefreshInvoked(i) /\ ~hook[i].loadingRef)
            => /\ hook'[i].flight = NewFlight
               /\ hook'[i].loadingRef
               /\ hook'[i].loading
               /\ hook'[i].error = Undefined
               /\ requests' = requests \o fetchRequests(i, hook[i].base)
       /\ (CycleEnded(i) /\ JoinReady(hook[i].flight) /\ hook[i].mountedRef)
            => ~hook'[i].loading /\ hook'[i].error = Undefined]_vars

\* after a cache hit on the earlier session's entry, which the full storage
\* still holds, the second call started a cycle, and the cycle succeeded
C9_Witness ==
  \E i \in DOMAIN hook :
    /\ ~hook[i].disableCache
    /\ storageMode = "full"
    /\ ValidEntry(hook[i].base)
    /\ hook[i].calls = 2
    /\ requests = fetchRequests(i, hook[i].base)
    /\ ~hook[i].flight.active
    /\ hook[i].flight.sym.st = "ok"
    /\ hook[i].flight.rat.st = "ok"
    /\ ~hook[i].loading
    /\ hook[i].error = Undefined

\* C10: a cache read at time now returns the stored entry if and only if the
\* storage is readable, the item parses and now - lastUpdated < TTL_MS.
C10_FreshnessWindow ==
  [][cacheRead' # cacheRead
       => LET raw == storage[cacheKey(cacheRead'.base)]
          IN  IF /\ storageMode # "unavailable"
                 /\ raw.kind = "json"
                 /\ now - Val(Val(raw.data).lastUpdated) < TTL_MS
              THEN cacheRead'.result = raw.data
              ELSE cacheRead'.result = Undefined]_vars

\* an entry read back one millisecond before the end of its window
C10_Witness ==
  /\ cacheRead.done
  /\ IsDefined(cacheRead.result)
  /\ cacheRead.at - Val(Val(cacheRead.result).lastUpdated) = TTL_MS - 1

\* the stored item for key k is missing, unparseable, without a numeric
\* lastUpdated or stale, or the storage throws
CacheAbsent(k) ==
  \/ storageMode = "unavailable"
  \/ storage[k].kind = "null"
  \/ storage[k].kind = "garbage"
  \/ /\ storage[k].kind = "json"
     /\ \/ ~IsDefined(Val(storage[k].data).lastUpdated)
        \/ now - Val(Val(storage[k].data).lastUpdated) >= TTL_MS

\* C11: when the stored item for the base is missing, unparseable, without a
\* numeric lastUpdated or stale, or the storage throws, the cache read
\* reports absence, and load({force: false}) with caching enabled starts a
\* fetch cycle - both requests issued, loading = true, error = null, the data
\* untouched.
C11_CacheReadNeverFails ==
  [][\A i \in DOMAIN hook :
       /\ CacheAbsent(hook[i].base) => loadCache(hook[i].base) = Undefined
       /\ (EffectRan(i) /\ ~hook[i].loadingRef /\ ~hook[i].disableCache
             /\ CacheAbsent(hook[i].base))
            => /\ hook'[i].flight = NewFlight
               /\ hook'[i].loadingRef
               /\ hook'[i].loading
               /\ hook'[i].error = Undefined
               /\ Data(hook'[i]) = Data(hook[i])
               /\ requests' = requests \o fetchRequests(i, hook[i].base)]_vars

\* the first load found an entry without lastUpdated and went to the network
C11_Witness ==
  \E i \in DOMAIN hook :
    /\ ~hook[i].disableCache
    /\ storageMode = "ok"
    /\ storage[hook[i].base] = Json(NoStampEntry)
    /\ hook[i].calls = 1
    /\ hook[i].flight = NewFlight
    /\ hook[i].error = Undefined
    /\ requests = fetchRequests(i, hook[i].base)

\* C12: when both requests of a cycle of a mounted controller have succeeded
\* and the storage cannot be written (unavailable or full), the cycle ends
\* with loading = false, error = null and the fetched rates and symbols in
\* the view; the storage is left as it was.
C12_WriteFailureSwallowed ==
  [][\A i \in DOMAIN hook :
       (CycleEnded(i) /\ JoinReady(hook[i].flight) /\ hook[i].mountedRef
          /\ storageMode \in {"unavailable", "full"})
         => /\ ~hook'[i].loading
            /\ ~hook'[i].loadingRef
            /\ hook'[i].error = Undefined
            /\ hook'[i].rates = Val(hook[i].flight.rat.val).rates
            /\ hook'[i].symbols = Val(hook[i].flight.sym.val)
            /\ hook'[i].lastUpdated = Some(now)
            /\ storage' = storage]_vars

\* with the storage full, a cycle ended Ready with the fetched tables and
\* nothing was stored
C12_Witness ==
  \E i \in DOMAIN hook :
    /\ storageMode = "full"
    /\ storage[hook[i].base] = NoItem
    /\ hook[i].mountedRef
    /\ ~hook[i].flight.active
    /\ hook[i].flight.sym = Fulfilled(SymbolsTable(1))
    /\ hook[i].flight.rat.st = "ok"
    /\ hook[i].rates = RatesTable(hook[i].base, 1)
    /\ hook[i].symbols = SymbolsTable(1)
    /\ hook[i].error = Undefined
    /\ ~hook[i].loading

\* C13: whenever a cache write replaces an entry that carries a lastUpdated,
\* the lastUpdated of the new entry is not smaller, whichever controller
\* instance writes.
C13_LastUpdatedMonotone ==
  [][\A k \in DOMAIN storage :
       (/\ storage'[k] # storage[k]
        /\ storage[k].kind = "json"
        /\ IsDefined(Val(storage[k].data).lastUpdated))
         => /\ storage'[k].kind = "json"
            /\ IsDefined(Val(storage'[k].data).lastUpdated)
            /\ Val(Val(storage'[k].data).lastUpdated)
                 >= Val(Val(storage[k].data).lastUpdated)]_vars

\* one instance wrote the entry at T0, the other replaced it a day later
C13_Witness ==
  /\ hook[1].lastUpdated = Some(T0)
  /\ hook[2].lastUpdated = Some(T0 + TTL_MS)
  /\ JoinReady([hook[1].flight EXCEPT !.active = TRUE])
  /\ JoinReady([hook[2].flight EXCEPT !.active = TRUE])
  /\ ~hook[1].flight.active
  /\ ~hook[2].flight.active
  /\ storage["USD"].kind = "json"
  /\ Val(storage["USD"].data).lastUpdated = Some(T0 + TTL_MS)

\* a call of convertAmount has been recorded
Converted == call.fn = "convertAmount"

\* the codes of the recorded call as the function compares them
CallFrom == toUpperCase(call.from)

CallTo == toUpperCase(call.to)

CallBase == IF IsDefined(call.base) THEN toUpperCase(Val(call.base)) ELSE "USD"

\* rate(code) of the recorded call: 1 for the base, rates[code] otherwise
StatedRate(code) ==
  IF code = CallBase THEN Some(Num(1000))
  ELSE IF code \in DOMAIN call.rates THEN Some(call.rates[code])
  ELSE Undefined

\* rate(code) is present, a number and finite
Available(code) == IsDefined(StatedRate(code)) /\ Val(StatedRate(code)).k = "fin"

\* C14: convertAmount(amount, X, X, rates, base) with a finite amount returns
\* the amount, whatever the table holds and whatever the base is.
C14_ConversionIdentity ==
  (Converted /\ isFinite(call.amount) /\ call.from = call.to)
    => call.result = call.amount

\* 100 ZZZ converted to ZZZ with a table that has no ZZZ
C14_Witness ==
  /\ Converted
  /\ call.amount = Num(100000)
  /\ call.from = "ZZZ"
  /\ call.to = "ZZZ"
  /\ "ZZZ" \notin DOMAIN call.rates
  /\ call.base = Some("USD")
  /\ call.result = Num(100000)

\* C15: when from and to differ and rate(from) or rate(to) is absent, not a
\* number or not finite, convertAmount returns NaN.
C15_MissingRateSentinel ==
  (Converted /\ CallFrom # CallTo /\ (~Available(CallFrom) \/ ~Available(CallTo)))
    => call.result = NaN

\* 100 USD to ZZZ with rates {EUR: 0.9} and base USD
C15_Witness ==
  /\ Converted
  /\ call.amount = Num(100000)
  /\ call.from = "USD"
  /\ call.to = "ZZZ"
  /\ call.rates = [c \in {"EUR"} |-> Num(900)]
  /\ call.base = Some("USD")
  /\ call.result = NaN

\* C16: for a finite amount, from and to different and both rates available,
\* the result is the amount divided by rate(from) unless from is the base,
\* then multiplied by rate(to) unless to is the base, the base's rate being 1
\* whatever the table holds for the base.
C16_TwoHopFormula ==
  (Converted /\ isFinite(call.amount) /\ CallFrom # CallTo
     /\ Available(CallFrom) /\ Available(CallTo))
    => LET amountInBase == IF CallFrom = CallBase THEN call.amount
                           ELSE Over(call.amount, Val(StatedRate(CallFrom)))
       IN  call.result = IF CallTo = CallBase THEN amountInBase
                         ELSE Times(amountInBase, Val(StatedRate(CallTo)))

\* 10 USD to EUR with base USD and a table that holds USD: 2 and EUR: 0.9
C16_Witness ==
  /\ Converted
  /\ call.amount = Num(10000)
  /\ call.from = "USD"
  /\ call.to = "EUR"
  /\ call.rates = [c \in {"EUR", "USD"} |-> IF c = "EUR" THEN Num(900) ELSE Num(2000)]
  /\ call.base = Some("USD")
  /\ call.result = Num(9000)

\* the recorded call converts back to USD what an earlier call converted from
\* a finite amount of USD to EUR, the base being USD and rates.EUR finite and
\* not zero
RoundTrip ==
  /\ Converted
  /\ IsDefined(call.orig)
  /\ isFinite(Val(call.orig))
  /\ call.from = "EUR"
  /\ call.to = "USD"
  /\ call.base = Some("USD")
  /\ "EUR" \in DOMAIN call.rates
  /\ call.rates["EUR"].k = "fin"
  /\ call.rates["EUR"].v # 0

\* the distance between neighbouring numbers at the magnitude of n
Ulp(n) == 2^ExponentOf(Abs(n), 1)

\* x is a finite number within rounding tolerance of the finite number a
Within(x, a) == isFinite(x) /\ Abs(x.v - a.v) <= 2 * Ulp(a.v)

\* C17 as stated: converting a finite amount from USD to EUR and the result
\* back gives a value within rounding tolerance of the amount, for every
\* finite nonzero rates.EUR.
C17_RoundTrip == RoundTrip => Within(call.result, Val(call.orig))

\* C17 as amended: the same, provided the EUR amount in between is a finite
\* number that is normal, or zero for a zero amount.
C17_RoundTripInRange ==
  (/\ RoundTrip
   /\ isFinite(call.amount)
   /\ (Abs(call.amount.v) >= MinNormal \/ Val(call.orig).v = 0))
    => Within(call.result, Val(call.orig))

\* 10 USD became 9 EUR and 9 EUR became 10 USD again
C17_Witness ==
  /\ RoundTrip
  /\ Val(call.orig) = Num(10000)
  /\ call.amount = Num(9000)
  /\ call.rates["EUR"] = Num(900)
  /\ call.result = Num(10000)

\* the cycle of controller i was started by its first load({force: false}),
\* made for USD with caching enabled, a working storage and an empty cache,
\* and the backend has answered {base, date, rates} and a symbols map
ColdLoadAnswered(i) ==
  /\ hook[i].calls = 1
  /\ ~hook[i].effectPending
  /\ hook[i].mountedRef
  /\ ~hook[i].disableCache
  /\ hook[i].base = "USD"
  /\ storageMode = "ok"
  /\ storage = [k \in Codes |-> NoItem]
  /\ hook[i].flight = [active |-> TRUE,
                       sym |-> Fulfilled(SymbolsTable(1)),
                       rat |-> Fulfilled(DirectRates("USD"))]

\* C18: such a cold load has issued exactly one round, ends Ready exposing
\* exactly the answered rates and symbols, and writes one cache entry, for
\* USD; converting 10 USD to EUR with the exposed rates {EUR: 0.9, GBP: 0.8}
\* gives 9.
C18_ColdLoad ==
  [][\A i \in DOMAIN hook :
       (ColdLoadAnswered(i) /\ CycleEnded(i))
         => /\ requests = fetchRequests(i, "USD")
            /\ requests' = requests
            /\ ~hook'[i].loading
            /\ hook'[i].error = Undefined
            /\ hook'[i].rates = RatesTable("USD", 1)
            /\ hook'[i].symbols = SymbolsTable(1)
            /\ hook'[i].date = Some(DateOf(1))
            /\ storage' = [storage EXCEPT !["USD"] =
                             Json([base |-> "USD", date |-> Some(DateOf(1)),
                                   rates |-> RatesTable("USD", 1),
                                   symbols |-> SymbolsTable(1),
                                   lastUpdated |-> Some(now)])]
            /\ convertAmount(Num(10000), "USD", "EUR", AsNumbers(hook'[i].rates),
                             Some(hook'[i].base)) = Num(9000)]_vars

\* the cold load has ended: one round, the answered tables exposed, one
\* entry stored, and 10 USD are 9 EUR
C18_Witness ==
  \E i \in DOMAIN hook :
    /\ hook[i].calls = 1
    /\ ~hook[i].effectPending
    /\ ~hook[i].disableCache
    /\ ~hook[i].flight.active
    /\ ~hook[i].loading
    /\ hook[i].error = Undefined
    /\ hook[i].rates = RatesTable("USD", 1)
    /\ hook[i].symbols = SymbolsTable(1)
    /\ requests = fetchRequests(i, "USD")
    /\ storage["USD"].kind = "json"
    /\ Val(storage["USD"].data).lastUpdated = Some(T0)
    /\ storage["EUR"] = NoItem
    /\ convertAmount(Num(10000), "USD", "EUR", AsNumbers(hook[i].rates), Some("USD"))
         = Num(9000)

\* the API base has been resolved
Resolved == call.fn = "resolveApiBase"

\* a setting is configured: set to a string that is not blank
Configured(v) == IsDefined(v) /\ trim(Val(v)) # <<>>

\* url is the caller's origin, trailing slashes aside
IsOrigin(url) ==
  IsDefined(call.origin) /\ stripTrailingSlash(url) = stripTrailingSlash(Val(call.origin))

\* C19 as stated: whenever the primary URL is configured, the effective API
\* base is the primary URL, for every secondary URL and every origin.
C19_PrimaryWins ==
  (Resolved /\ Configured(call.primary)) => call.result = trim(Val(call.primary))

\* C19 as amended: whenever the primary URL is configured, the effective API
\* base is the primary URL, for every secondary URL, unless the primary URL is
\* the caller's origin, trailing slashes aside; then it is the public fallback.
C19_PrimaryWinsUnlessOrigin ==
  (Resolved /\ Configured(call.primary))
    => call.result = IF IsOrigin(trim(Val(call.primary)))
                     THEN EXTERNAL_FALLBACK_BASE
                     ELSE trim(Val(call.primary))

\* the primary URL won over a configured secondary URL that is not the origin
C19_Witness ==
  /\ Resolved
  /\ call.primary = Some(<<" ", "https://api.example.com", " ">>)
  /\ call.secondary = Some(<<"https://backend.example.com">>)
  /\ call.origin = Some(<<"https://app.example.com">>)
  /\ call.result = <<"https://api.example.com">>

\* C20: the candidate base URL is the primary URL if that is configured, else
\* the secondary URL if that is configured, else the runtime origin; a blank
\* or white-space setting is not configured.
C20_PreferenceOrder ==
  Resolved
    => /\ Configured(call.primary) => call.candidate = trim(Val(call.primary))
       /\ (~Configured(call.primary) /\ Configured(call.secondary))
            => call.candidate = trim(Val(call.secondary))
       /\ (~Configured(call.primary) /\ ~Configured(call.secondary)
             /\ IsDefined(call.origin))
            => call.candidate = Val(call.origin)

\* a white-space primary URL was passed over for the secondary URL
C20_Witness ==
  /\ Resolved
  /\ call.primary = Some(<<" ", " ">>)
  /\ call.secondary = Some(<<"https://backend.example.com">>)
  /\ call.origin = Some(<<"https://app.example.com">>)
  /\ call.candidate = <<"https://backend.example.com">>

\* C21: the effective API base is the public fallback whenever neither the
\* primary nor the secondary URL is configured, with or without a runtime
\* origin, and whenever the configured URL is the caller's origin, trailing
\* slashes aside; the origin or the localhost placeholder is never returned
\* in such a case.
C21_FallbackSubstitution ==
  (Resolved /\ (\/ ~Configured(call.primary) /\ ~Configured(call.secondary)
                \/ IsOrigin(call.candidate)))
    => /\ call.result = EXTERNAL_FALLBACK_BASE
       /\ call.result # LocalhostOrigin
       /\ ~IsOrigin(call.result)

\* httpGet has settled
Settled == call.fn = "httpGet" /\ call.pc = "done"

\* the error httpGet delivered, if it threw
Thrown == Settled /\ Val(call.outcome).kind = "throw"

Delivered == Val(call.outcome).error

\* the delivered error is of the timeout kind
TimedOut == Thrown /\ "code" \in DOMAIN Delivered /\ Delivered.code = "ETIMEDOUT"

\* C22: a request still pending when its timer fires (waiting for the
\* response or reading its body) fails with the timeout kind, code ETIMEDOUT,
\* and a failure not caused by the timer firing is never reported as a timeout.
C22_TimeoutClassification ==
  Settled => (call.aborted <=> TimedOut)

\* C23: for every non-success response the delivered error carries the
\* response's status code as its own status field and is not of the generic
\* kind that wraps a cause.
C23_StatusErrorCarriesStatus ==
  (Settled /\ IsDefined(call.res) /\ ~Val(call.res).ok)
    => /\ Thrown
       /\ "status" \in DOMAIN Delivered
       /\ Delivered.status = Val(call.res).status
       /\ "cause" \notin DOMAIN Delivered

\* C24: on every exit path of httpGet the timer of the request is cleared:
\* no timer of a settled request is pending, and no abort fires after the
\* request has settled.
C24_TimerReleased ==
  [][/\ Settled' => call'.timer # "armed"
     /\ Settled => (call'.aborted = call.aborted /\ call'.timer = call.timer)]_vars

\* a status error was delivered and the timer was cleared before it was due
C24_Witness ==
  /\ Settled /\ Thrown /\ ~call.aborted
  /\ IsDefined(call.res) /\ ~Val(call.res).ok
  /\ call.timer = "cleared"
  /\ now > call.start

\* a service function was called and the awaited httpGet returned a body
Normalized(fn) == call.fn = fn /\ call.http.kind = "return"

Body == call.http.value

\* the base asked for: opts.base, USD when none is given
Requested == IF call.base = "" THEN "USD" ELSE call.base

\* the body has both base and rates (as non-empty properties of an object)
HasBaseAndRates == IsObjectBody(Body) /\ Truthy(Body.base) /\ IsDefined(Body.rates)

\* the body is nested as {data: {rates}}
IsNested == IsObjectBody(Body) /\ IsDefined(Body.data) /\ IsDefined(Val(Body.data).rates)

\* C25: getDailyRates returns the body's own base, date and rates when the
\* body has both base and rates; data.base (the requested base when absent),
\* data.date and data.rates when the body is nested as {data: {rates}}; and
\* {base: requested base, rates: {}} for every other body.
C25_RatesNormalization ==
  Normalized("getDailyRates")
    => /\ call.outcome.kind = "return"
       /\ call.outcome.value =
            IF HasBaseAndRates
            THEN [base |-> Val(Body.base), date |-> Body.date, rates |-> Val(Body.rates)]
            ELSE IF IsNested
            THEN [base |-> IF IsDefined(Val(Body.data).base)
                           THEN Val(Val(Body.data).base) ELSE Requested,
                  date |-> Val(Body.data).date,
                  rates |-> Val(Val(Body.data).rates)]
            ELSE [base |-> Requested, date |-> Undefined, rates |-> EmptyTable]

\* a nested payload without a base of its own was unwrapped for a request
\* for EUR
C25_Witness ==
  /\ Normalized("getDailyRates")
  /\ call.base = "EUR"
  /\ ~HasBaseAndRates /\ IsNested /\ ~IsDefined(Val(Body.data).base)
  /\ call.outcome.value.base = "EUR"
  /\ call.outcome.value.rates = RatesTable("EUR", 1)

\* C26: for every body received (null, text, number, array, object without
\* the expected fields, object with data: null) getDailyRates and getSymbols
\* return a value; getSymbols returns the top-level symbols object, else
\* data.symbols, else an empty mapping; the only errors they throw are the
\* ones httpGet threw.
C26_ShapeMismatchNeverThrows ==
  /\ (Normalized("getDailyRates") \/ Normalized("getSymbols"))
       => call.outcome.kind = "return"
  /\ Normalized("getSymbols")
       => call.outcome.value =
            IF IsObjectBody(Body) /\ IsDefined(Body.symbols) /\ IsObjectValue(Val(Body.symbols))
            THEN Val(Body.symbols)
            ELSE IF IsObjectBody(Body) /\ IsDefined(Body.data)
                    /\ IsDefined(Val(Body.data).symbols)
            THEN Val(Val(Body.data).symbols)
            ELSE EmptyTable
  /\ (call.fn \in {"getDailyRates", "getSymbols"} /\ call.outcome.kind = "throw")
       => call.http = call.outcome

\* getSymbols answered a null body with an empty mapping
C26_Witness ==
  /\ Normalized("getSymbols")
  /\ Body = PlainBody("null")
  /\ call.outcome = [kind |-> "return", value |-> EmptyTable]

\* the converter is mounted, its data load has completed, its effects have
\* run and the user has selected nothing
ConverterAtRest ==
  /\ ui.component = "CurrencyConverter"
  /\ ~ui.loading /\ ui.effects = {} /\ ui.userActs = 0

\* C27: a from/to pair saved in a previous session, both codes being among
\* the loaded symbols, is the selected pair once the converter has mounted and
\* its data load has completed, and is still the stored selection: mounting
\* neither replaces it with the defaults nor overwrites it.
C27_SelectionRestored ==
  (/\ ConverterAtRest
   /\ IsDefined(ui.restored)
   /\ Val(ui.restored).from \in DOMAIN ui.symbols
   /\ Val(ui.restored).to \in DOMAIN ui.symbols)
    => /\ ui.from = Val(ui.restored).from
       /\ ui.to = Val(ui.restored).to
       /\ IsDefined(loadSelection(ui.stored))
       /\ Val(loadSelection(ui.stored)).from = Val(ui.restored).from
       /\ Val(loadSelection(ui.stored)).to = Val(ui.restored).to

\* App is mounted and rendered
AppMounted == ui.component = "App"

\* this step is a toggle of the theme
Toggled == AppMounted /\ AppMounted' /\ ui'.toggles = ui.toggles + 1

\* C28 as stated: the theme is always light or dark; each toggle flips it, so
\* two toggles restore the original theme; after every toggle the data-theme
\* attribute and the stored 'theme' value both equal the current theme.
C28_ThemeToggle ==
  [][/\ AppMounted' => ui'.theme \in {"light", "dark"}
     /\ Toggled => /\ ui'.theme # ui.theme
                   /\ (ui'.toggles % 2 = 0) <=> (ui'.theme = ui.initialTheme)
                   /\ ui'.attribute = Some(ui'.theme)
                   /\ storage'["theme"] = Some(ui'.theme)]_vars

\* C28 as amended: the theme is always light or dark; each toggle flips it,
\* so two toggles restore the original theme; after every toggle the
\* data-theme attribute equals the current theme, and the stored 'theme'
\* value equals it too when the storage accepts the write; when the write
\* fails the stored value stays as it was.
C28_ThemeToggleStorageAllowing ==
  [][/\ AppMounted' => ui'.theme \in {"light", "dark"}
     /\ Toggled => /\ ui'.theme # ui.theme
                   /\ (ui'.toggles % 2 = 0) <=> (ui'.theme = ui.initialTheme)
                   /\ ui'.attribute = Some(ui'.theme)
                   /\ storage'["theme"] = IF setItemWorks THEN Some(ui'.theme)
                                          ELSE storage["theme"]]_vars

\* two toggles brought a dark App back to dark while the storage, full since
\* before the first toggle, still holds a value that is not a theme
C28_Witness ==
  /\ AppMounted
  /\ ui.toggles = 2
  /\ ui.initialTheme = "dark" /\ ui.theme = "dark" /\ ui.attribute = Some("dark")
  /\ storageMode = "full"
  /\ storage["theme"] = Some("blue")

\* C29: provided every request responds or times out, every load that enters
\* Loading leaves it: the view of a mounted controller eventually has
\* loading = false, and the single-flight guard is eventually released on
\* every exit path (cache hit, success, failure, consumer unmounted).
C29_LoadTerminates ==
  \A i \in Instances :
    /\ hook[i].loadingRef ~> ~hook[i].loadingRef
    /\ (hook[i].alive /\ hook[i].loading) ~> (~hook[i].alive \/ ~hook[i].loading)

\* the consumer unmounted during a cycle that failed, and the guard was
\* released although loading was never reset
C29_Witness ==
  \E i \in Instances :
    /\ ~hook[i].alive /\ ~hook[i].mountedRef
    /\ ~hook[i].flight.active /\ hook[i].flight.rat.st = "failed"
    /\ ~hook[i].loadingRef
    /\ hook[i].loading

\* C30: a fetch cycle that fails leaves the exposed rates, symbols, date and
\* lastUpdated as they were before the cycle and neither writes nor deletes
\* a cache entry; only loading and error change, so data loaded earlier stays
\* visible next to the error.
C30_FailedCycleFrame ==
  [][\A i \in Instances :
       /\ (hook[i].flight.active /\ ~(CycleEnded(i) /\ JoinReady(hook[i].flight)))
            => /\ Data(hook'[i]) = Data(hook[i])
               /\ storage' = storage
       /\ (CycleEnded(i) /\ JoinFailed(hook[i].flight))
            => /\ View(hook'[i]) = [View(hook[i]) EXCEPT !.loading = hook'[i].loading,
                                                         !.error = hook'[i].error]
               /\ hook[i].mountedRef
                    => ~hook'[i].loading /\ IsDefined(hook'[i].error)]_vars

\* a forced refresh failed after a cache hit: the cached rates are still
\* shown next to the error and the entry is still stored
C30_Witness ==
  \E i \in Instances :
    /\ hook[i].mountedRef /\ ~hook[i].loading /\ IsDefined(hook[i].error)
    /\ ~hook[i].flight.active /\ JoinFailed([hook[i].flight EXCEPT !.active = TRUE])
    /\ hook[i].rates = OldEntry.rates /\ hook[i].lastUpdated = OldEntry.lastUpdated
    /\ storage["USD"] = Json(OldEntry)

\* the controller instances with a fetch cycle for base b in flight
InFlightFor(b) == {i \in DOMAIN hook : hook[i].flight.active /\ hook[i].b = Some(b)}

\* C31: when two controller instances select the same base with an empty
\* cache, at most one fetch cycle for that base is in flight at any time,
\* counted over both instances.
C31_OneCycleAcrossInstances ==
  \A b \in Codes : Cardinality(InFlightFor(b)) <= 1

\* controller i is mounted
Mounted(i) == hook[i].alive /\ hook[i].mountedRef

\* C32 as stated: in every state of a mounted controller error is non-null
\* only when loading is false; entering Loading clears any previous error;
\* and loading = false holds exactly when no fetch cycle of the controller is
\* in flight.
C32_LoadingErrorExclusive ==
  /\ [](\A i \in Instances :
          Mounted(i) => /\ IsDefined(hook[i].error) => ~hook[i].loading
                        /\ ~hook[i].loading <=> ~hook[i].flight.active)
  /\ [][\A i \in Instances :
          (Mounted(i) /\ ~hook[i].loading /\ hook'[i].loading)
            => hook'[i].error = Undefined]_vars

\* C32 as amended: in every state of a mounted controller error is non-null
\* only when loading is false; entering Loading clears any previous error;
\* and, once the mount effect has run, loading = false holds exactly when no
\* fetch cycle of the controller is in flight (before that, loading is true
\* and no cycle is in flight).
C32_LoadingErrorExclusiveAfterMount ==
  /\ [](\A i \in Instances :
          Mounted(i) => /\ IsDefined(hook[i].error) => ~hook[i].loading
                        /\ hook[i].calls > 0
                             => (~hook[i].loading <=> ~hook[i].flight.active)
                        /\ hook[i].calls = 0
                             => (hook[i].loading /\ ~hook[i].flight.active))
  /\ [][\A i \in Instances :
          (Mounted(i) /\ ~hook[i].loading /\ hook'[i].loading)
            => hook'[i].error = Undefined]_vars

\* a refresh after a first load ended in Error: the error is shown, loading
\* is false and no cycle is in flight
C32_Witness ==
  \E i \in Instances :
    /\ Mounted(i)
    /\ hook[i].calls = 2
    /\ ~hook[i].loading /\ ~hook[i].flight.active
    /\ hook[i].error = Some(TimeoutErr)
    /\ hook[i].flight.sym.st = "failed"

\* C33 as stated: when the consumer has unmounted for good while a fetch cycle was in
\* flight, the late result or failure of the cycle changes none of the view
\* fields (rates, symbols, date, lastUpdated, error, loading); the guard is
\* still released, and a successful result is still written to the cache.
C33_UnmountedCycleFrame ==
  [][\A i \in Instances :
       (~hook[i].alive /\ CycleEnded(i))
         => /\ View(hook'[i]) = View(hook[i])
            /\ ~hook'[i].loadingRef
            /\ JoinReady(hook[i].flight)
                 => /\ storage'[cacheKey(Val(hook[i].b))].kind = "json"
                    /\ LET e == Val(storage'[cacheKey(Val(hook[i].b))].data)
                       IN  /\ e.lastUpdated = Some(now)
                           /\ e.rates = Val(hook[i].flight.rat.val).rates
                           /\ e.symbols = Val(hook[i].flight.sym.val)]_vars

\* C33 as amended: when the consumer has unmounted for good while a fetch
\* cycle was in flight, the late result or failure of the cycle changes none
\* of the view fields; the guard is still released, and a successful result
\* is still written to the cache when the storage accepts the write; a write
\* that fails leaves the storage as it was.
C33_UnmountedCycleFrameStorageAllowing ==
  [][\A i \in Instances :
       (~hook[i].alive /\ CycleEnded(i))
         => /\ View(hook'[i]) = View(hook[i])
            /\ ~hook'[i].loadingRef
            /\ (JoinReady(hook[i].flight) /\ setItemWorks)
                 => /\ storage'[cacheKey(Val(hook[i].b))].kind = "json"
                    /\ LET e == Val(storage'[cacheKey(Val(hook[i].b))].data)
                       IN  /\ e.lastUpdated = Some(now)
                           /\ e.rates = Val(hook[i].flight.rat.val).rates
                           /\ e.symbols = Val(hook[i].flight.sym.val)
            /\ ~(JoinReady(hook[i].flight) /\ setItemWorks) => storage' = storage]_vars

\* a refresh after a cache hit was answered after the consumer had unmounted:
\* the view still shows the cached entry and Loading, the guard is free and
\* the stored entry is the new one
C33_Witness ==
  \E i \in Instances :
    /\ ~hook[i].alive
    /\ ~hook[i].flight.active /\ JoinReady([hook[i].flight EXCEPT !.active = TRUE])
    /\ ~hook[i].loadingRef
    /\ hook[i].loading
    /\ hook[i].lastUpdated = OldEntry.lastUpdated
    /\ storage["USD"].kind = "json"
    /\ Val(storage["USD"].data).lastUpdated = Some(now)

\* the cycle of controller i ends in this step with a rates answer of an
\* unrecognised shape
DegradedCycleEnds(i) ==
  /\ CycleEnded(i) /\ JoinReady(hook[i].flight)
  /\ hook[i].mountedRef
  /\ Val(hook[i].flight.rat.val).rates = EmptyTable

\* the entry stored for base k is a degraded one within its TTL
DegradedEntry(k) == ValidEntry(k) /\ Val(storage[k].data).rates = EmptyTable

\* a non-forced load of controller i is made in this step with caching on
NonForcedLoad(i) == EffectRan(i) /\ ~hook[i].loadingRef /\ ~hook[i].disableCache

\* C34 as stated: when the rates response has an unrecognised shape the cycle
\* ends Ready, not Error, with an empty rates table, and that table is stored
\* with a fresh lastUpdated, so every non-forced load for the base within the
\* TTL is served the empty table from the cache without a request.
C34_DegradedCached ==
  [][\A i \in DOMAIN hook :
       /\ DegradedCycleEnds(i)
            => /\ ~hook'[i].loading /\ hook'[i].error = Undefined
               /\ hook'[i].rates = EmptyTable
               /\ DegradedEntry(Val(hook[i].b))'
               /\ Val(storage'[Val(hook[i].b)].data).lastUpdated = Some(now)
       /\ (NonForcedLoad(i) /\ DegradedEntry(hook[i].base))
            => /\ requests' = requests
               /\ ~hook'[i].loading /\ hook'[i].error = Undefined
               /\ hook'[i].rates = EmptyTable]_vars

\* C34 as amended: when the rates response has an unrecognised shape the
\* cycle ends Ready, not Error, with an empty rates table; when the storage
\* accepts the write that table is stored with a fresh lastUpdated, so every
\* non-forced load for the base within the TTL is served the empty table from
\* the cache without a request; when the write fails nothing is stored.
C34_DegradedCachedStorageAllowing ==
  [][\A i \in DOMAIN hook :
       /\ DegradedCycleEnds(i)
            => /\ ~hook'[i].loading /\ hook'[i].error = Undefined
               /\ hook'[i].rates = EmptyTable
               /\ setItemWorks
                    => /\ DegradedEntry(Val(hook[i].b))'
                       /\ Val(storage'[Val(hook[i].b)].data).lastUpdated = Some(now)
               /\ ~setItemWorks => storage' = storage
       /\ (NonForcedLoad(i) /\ DegradedEntry(hook[i].base))
            => /\ requests' = requests
               /\ ~hook'[i].loading /\ hook'[i].error = Undefined
               /\ hook'[i].rates = EmptyTable]_vars

\* the first controller stored the degraded answer; the second mounted later
\* and was served the empty table without a request of its own
C34_Witness ==
  /\ DegradedEntry("USD")
  /\ hook[2].calls = 1 /\ ~hook[2].effectPending
  /\ ~hook[2].loading /\ hook[2].error = Undefined
  /\ hook[2].rates = EmptyTable
  /\ hook[2].lastUpdated = Val(storage["USD"].data).lastUpdated
  /\ hook[2].flight = NoFlight
  /\ \A n \in DOMAIN requests : requests[n].inst = 1

\* the base a caller means by optBase: upper-cased, USD when there is none
BaseOf(optBase) == InitHook(optBase, FALSE).base

\* a write for base optBase is made in this step
WrittenFor(optBase) ==
  /\ storage' # storage
  /\ storage' = saveCache(optBase, KeyedPayload(optBase), now)

\* a read is made in this step
ReadMade == cacheRead' # cacheRead /\ cacheRead'.done

\* C35: the cache key depends only on the upper-cased base: a write for base
\* A changes no entry of a base B # A, and a read for base B never returns an
\* entry that was written for another base.
C35_CacheKeyIsolation ==
  [][/\ \A a \in OptBases : \A k \in Codes :
          (WrittenFor(a) /\ k # BaseOf(a)) => storage'[k] = storage[k]
     /\ (ReadMade /\ IsDefined(cacheRead'.result))
          => Val(cacheRead'.result).base = BaseOf(cacheRead'.base)]_vars

\* entries of both bases are stored and a read for 'eur' returned the entry
\* written for EUR
C35_Witness ==
  /\ storage["USD"].kind = "json" /\ storage["EUR"].kind = "json"
  /\ Val(storage["USD"].data).lastUpdated # Val(storage["EUR"].data).lastUpdated
  /\ cacheRead.done /\ cacheRead.base = "eur"
  /\ cacheRead.result = storage["EUR"].data
  /\ Val(cacheRead.result).base = "EUR"

\* every entry of the rates table of the recorded call is a finite number
FiniteTable == \A c \in DOMAIN call.rates : isFinite(call.rates[c])

\* C36: for every finite amount and every rates table whose entries are
\* finite numbers convertAmount returns a finite number or NaN, never an
\* infinite value, also when rate(from) is 0.
C36_ResultRange ==
  (Converted /\ isFinite(call.amount) /\ FiniteTable)
    => (isFinite(call.result) \/ call.result = NaN)

\* a key or button of the calculator is pressed in this step
KeyPressed == ui'.keys = ui.keys + 1

\* the press of this step is one of an operator
OpPress ==
  /\ KeyPressed
  /\ \/ ui'.handler = "pressOp"
     \/ ui'.handler = "onKeyDown" /\ ui'.arg \in {"+", "-", "*", "/"}

\* the press of this step is one of equals
EqualsPress ==
  /\ KeyPressed
  /\ \/ ui'.handler = "pressEquals"
     \/ ui'.handler = "onKeyDown" /\ ui'.arg \in {"Enter", "="}

\* the press of this step is one of clear
ClearPress ==
  /\ KeyPressed
  /\ \/ ui'.handler = "pressClear"
     \/ ui'.handler = "onKeyDown" /\ ui'.arg \in {"Escape", "c", "C"}

\* an operation is pending: no error, an accumulator and an operator
OperationPending == Commits(ui.state)

\* C37: after equals or an operator press commits a pending operation with a
\* finite result, Number(display) equals the accumulator, for every integer
\* result, multiples of 10 included.
C37_ResultDisplay ==
  [][(/\ OperationPending
      /\ OpPress \/ EqualsPress
      /\ ~IsDefined(ui'.state.error)
      /\ IsInteger(Val(ui'.state.accumulator)))
       => Number(ui'.state.display) = Val(ui'.state.accumulator)]_vars

\* C38: the calculator starts with display '0' and no error; once error is
\* set every press but clear leaves the state as it is, and clear returns
\* the initial state.
C38_ErrorAbsorbing ==
  /\ [](ui.keys = 0 => (ui.state.display = <<"0">> /\ ui.state.error = Undefined))
  /\ [][(KeyPressed /\ IsDefined(ui.state.error))
          => IF ClearPress
             THEN ui'.state = [display |-> <<"0">>, accumulator |-> Undefined,
                               operator |-> Undefined, entering |-> FALSE,
                               error |-> Undefined]
             ELSE ui'.state = ui.state]_vars

\* a digit was pressed in the error state, which is still there
C38_Witness ==
  /\ ui.component = "calculator"
  /\ ui.state.error = Some("DIV_ZERO")
  /\ ui.state.display = <<"Cannot divide by zero">>
  /\ ui.handler = "pressDigit" /\ ui.arg = "5"

\* the right operand of a pending division is 0
DivisionByZeroPending ==
  /\ OperationPending
  /\ Val(ui.state.operator) = "/"
  /\ Number(ui.state.display).k = "num"
  /\ Number(ui.state.display).whole = 0
  /\ Number(ui.state.display).frac = <<>>

\* C39: committing a pending '/' whose right operand is 0, by equals or by
\* the next operator press, gives error 'DIV_ZERO', display 'Cannot divide
\* by zero', accumulator null, operator null and entering false; nothing
\* else enters the error state.
C39_DivisionByZero ==
  [][/\ (DivisionByZeroPending /\ (OpPress \/ EqualsPress))
          => ui'.state = [display |-> <<"Cannot divide by zero">>,
                          accumulator |-> Undefined, operator |-> Undefined,
                          entering |-> FALSE, error |-> Some("DIV_ZERO")]
     /\ (KeyPressed /\ ~IsDefined(ui.state.error) /\ IsDefined(ui'.state.error))
          => (DivisionByZeroPending /\ (OpPress \/ EqualsPress))]_vars

\* 5 / 0 was committed by the press of +
C39_Witness ==
  /\ ui.component = "calculator"
  /\ ui.state.error = Some("DIV_ZERO")
  /\ ui.state.accumulator = Undefined /\ ui.state.operator = Undefined
  /\ ui.handler = "pressOp" /\ ui.arg = "+"
  /\ ui.keys = 4

\* C40: an operator pressed when no digit has been entered since the
\* previous operator press only replaces the pending operator; accumulator
\* and display stay as they are.
C40_OperatorReplacement ==
  [][(OperationPending /\ ~ui.state.entering /\ OpPress)
       => /\ ui'.state.operator = Some(ui'.arg)
          /\ ui'.state.accumulator = ui.state.accumulator
          /\ ui'.state.display = ui.state.display]_vars

====
